---- MODULE Spec2Model ----
(***************************************************************************)
(* AceAI study assistant: knowledge store (IndexedDB), relevance           *)
(* retriever, import merger, LLM orchestrators and quiz session scorer.    *)
(*                                                                         *)
(* Strings that the code inspects (query, prompt text, tags, error        *)
(* messages, model responses) are sequences of characters or tokens, so   *)
(* that toLowerCase / includes / replace / JSON.parse are computed.       *)
(*                                                                         *)
(* The specifications share the variables:                                 *)
(*   SpecStore  the Knowledge Store operations of services/db.ts           *)
(*   SpecLLM    one orchestrator call after another (callDashScope inside) *)
(*   SpecApp    App and AdminDashboard: loadData, handleGenerateQuiz,      *)
(*              handleImportKnowledgeBase, the preview commits             *)
(*   SpecQuiz   QuizInterface on a started session, up to handleQuizFinish *)
(*              or to the learner leaving the quiz view (SpecQuizLive: the *)
(*              same with the grading call bound to settle)                *)
(*   SpecRequest the requests that analyzeAndImportFile, generateQuiz and  *)
(*              gradeAnswer build from the uploaded files and the answer   *)
(*   SpecContext handleGenerateQuiz without files: the search of the       *)
(*              store and the request generateQuizFromKnowledgeBase builds *)
(*   SpecAdmin  the admin view's delete buttons and backup import, and the *)
(*              application being closed and started again                 *)
(* Asynchronous handlers are split at their awaits.  A rejected store      *)
(* request aborts its transaction and writes nothing.  Entities conform to *)
(* types.ts.  The navigation bar makes every view reachable at any moment, *)
(* so the handlers of SpecApp are not guarded by the view shown; the       *)
(* averageScore of the statistics is not modelled.                         *)
(***************************************************************************)
EXTENDS Integers, Sequences, FiniteSets, TLC

\* ------------------------------------------------------------------ bounds
\* entities written to the store in one behaviour of SpecStore
MaxLog == 3
\* length of a batch handed to saveQuestions in SpecStore
MaxBatch == 2
\* identifiers the orchestrators may hand out in one behaviour
MaxGen == 4
\* user actions (imports, generations, previews) in one behaviour of SpecApp
MaxOps == 2
\* files handed to one request-building call in SpecRequest
MaxFiles == 2

VARIABLES
    dbQuestions,    \* object store 'questions', in key order
    dbSyllabuses,   \* object store 'syllabuses', in key order
    writtenQ,       \* history: questions written by successful calls, in order
    writtenS,       \* history: syllabuses written by successful calls, in order
    lastWrite,      \* the last Knowledge Store write call and how it settled
    lastRead,       \* the value the last read resolved with (until the next write)
    apiKey,         \* process.env.DASHSCOPE_API_KEY is set
    nextGen,        \* identifiers handed out so far (Date.now() + random suffix)
    orch,           \* the orchestrator call in progress, or the last one
    questionBank,   \* App state: the in-memory Questions
    syllabuses,     \* App state: the in-memory Syllabuses
    view,           \* App state: the view shown
    currentSession, \* App state: the quiz session, a sequence of at most one
    isLoading,      \* App state: handleGenerateQuiz is running
    previewQuestions,   \* AdminDashboard state: parsed questions to commit
    previewSyllabus,    \* AdminDashboard state: a sequence of at most one
    load,           \* loadData (the start-up effect): where it is
    imp,            \* handleImportKnowledgeBase: where it is, what it holds
    gen,            \* handleGenerateQuiz: where it is, what it holds
    alert,          \* the last alert shown to the user
    ops,            \* user actions so far
    lastMerges,     \* history: the in-memory merges the last step made
    addedQ,         \* history: ids of questions that merges added to memory
    addedS,         \* history: ids of syllabuses that merges added to memory
    deleted,        \* history: ids the admin deleted and has not imported since
    stats,          \* App state: what handleQuizFinish added to the statistics
    currentIdx,     \* QuizInterface state: index of the question shown
    answers,        \* QuizInterface state: question id -> at most one UserAnswer
    isSubmitting,   \* QuizInterface state: a grading request is in flight
    liveFeedback,   \* QuizInterface state: at most one graded UserAnswer
    grading,        \* checkSingleAnswer: the answer it closed over
    files,          \* the files handed to a request-building call
    request         \* the last request a call built for the model

storeVars == <<dbQuestions, dbSyllabuses>>
storeHistory == <<writtenQ, writtenS, lastWrite, lastRead>>
llmVars == <<apiKey, nextGen, orch>>
memVars == <<questionBank, syllabuses>>
sessionVars == <<view, currentSession, isLoading>>
previewVars == <<previewQuestions, previewSyllabus>>
mergeHistory == <<lastMerges, addedQ, addedS, deleted>>
quizVars == <<stats, currentIdx, answers, isSubmitting, liveFeedback, grading>>
reqVars == <<files, request>>
appVars ==
    <<memVars, sessionVars, previewVars, load, imp, gen, alert, ops, mergeHistory,
      quizVars, reqVars>>

vars == <<storeVars, storeHistory, llmVars, appVars>>

\* ------------------------------------------------------------- strings
\* String.prototype.toLowerCase on the alphabet used here
LowerChar(c) ==
    CASE c = "A" -> "a"
      [] c = "B" -> "b"
      [] c = "C" -> "c"
      [] OTHER -> c

ToLowerCase(s) == [i \in 1..Len(s) |-> LowerChar(s[i])]

\* String.prototype.includes: needle occurs as a contiguous run of hay
Includes(hay, needle) ==
    \E off \in 0..(Len(hay) - Len(needle)) :
        SubSeq(hay, off + 1, off + Len(needle)) = needle

\* ------------------------------------------------------- knowledge store
\* IndexedDB iterates an object store in ascending key order; keys are the
\* entities' id strings.  KeyOrder lists the ids of the model in that order.
KeyOrder ==
    <<"1001", "1002", "1003", "1004", "1005", "1006", "1007", "1008",
      "a1", "a2", "a3", "init-1", "m1", "m2", "s1", "s2", "syl-1">>

KeyRank(id) == CHOOSE i \in 1..Len(KeyOrder) : KeyOrder[i] = id

\* a mutation of Put: an existing record with the key is kept (add, not put)
PutKeepsOld(store, e) ==
    IF \E i \in 1..Len(store) : store[i].id = e.id
    THEN store
    ELSE SelectSeq(store, LAMBDA x : KeyRank(x.id) < KeyRank(e.id))
         \o <<e>>
         \o SelectSeq(store, LAMBDA x : KeyRank(x.id) > KeyRank(e.id))

\* IDBObjectStore.put with keyPath 'id': insert, or overwrite the record
\* that has the same key
Put(store, e) ==
    SelectSeq(store, LAMBDA x : KeyRank(x.id) < KeyRank(e.id))
    \o <<e>>
    \o SelectSeq(store, LAMBDA x : KeyRank(x.id) > KeyRank(e.id))

\* questions.forEach(q => store.put(q)) inside one transaction
RECURSIVE PutAll(_, _)
PutAll(store, batch) ==
    IF batch = <<>> THEN store
    ELSE PutAll(Put(store, Head(batch)), Tail(batch))

\* IDBObjectStore.getAll(): every record, in key order
GetAll(store) == store

\* the filter of findRelevantQuestions
RelevantQuestion(q, query) ==
    \/ \E i \in 1..Len(q.tags) :
          Includes(ToLowerCase(q.tags[i]), ToLowerCase(query))
    \/ Includes(ToLowerCase(q.text), ToLowerCase(query))

\* a mutation of FindRelevantQuestions: the query is compared as typed
FindRelevantCaseSensitive(store, query) ==
    SelectSeq(GetAll(store),
              LAMBDA q : \/ \E i \in 1..Len(q.tags) : Includes(q.tags[i], query)
                         \/ Includes(q.text, query))

FindRelevantQuestions(store, query) ==
    SelectSeq(GetAll(store), LAMBDA q : RelevantQuestion(q, query))

\* ------------------------------------------------------- JSON documents
\* A value of a field of a parsed document: t is its JSON type ("absent"
\* when the field is missing), n a number, the truth of a boolean (0/1) or
\* the length of a string, items the identifiers of a list of records.
FieldValue(t, n, items) == [t |-> t, n |-> n, items |-> items]
Absent == FieldValue("absent", 0, <<>>)
JNull == FieldValue("null", 0, <<>>)
JNumber(n) == FieldValue("number", n, <<>>)
JBoolean(b) == FieldValue("boolean", IF b THEN 1 ELSE 0, <<>>)
JString(len) == FieldValue("string", len, <<>>)
JObject == FieldValue("object", 0, <<>>)
JList(ids) == FieldValue("list", 0, ids)

\* JavaScript truthiness, as used by || and if
Truthy(v) ==
    /\ v.t \notin {"absent", "null"}
    /\ ~(v.t \in {"number", "boolean", "string"} /\ v.n = 0)

\* A parsed document: kind is the JSON type of the top-level value; the
\* other fields are the properties the orchestrators read from it.
EmptyObject ==
    [kind |-> "object", questions |-> Absent, score |-> Absent,
     isCorrect |-> Absent, feedback |-> Absent, syllabusData |-> Absent,
     questionsData |-> Absent]
NoDoc == [EmptyObject EXCEPT !.kind = "none"]
JsonNull == [EmptyObject EXCEPT !.kind = "null"]
JsonNumber == [EmptyObject EXCEPT !.kind = "number"]
JsonArray == [EmptyObject EXCEPT !.kind = "array"]

\* ---------------------------------------------------- response texts
\* A response text is a sequence of tokens: "fence" (three backticks),
\* "json" (the word), "nl" (a newline), "prose", or "doc" (a complete JSON
\* document).
Tok(t) == [tok |-> t, doc |-> NoDoc]
DocTok(d) == [tok |-> "doc", doc |-> d]

\* responseText.replace(/```json\n?|\n?```/g, ""): at each position the
\* first alternative is tried before the second
RECURSIVE StripFences(_)
StripFences(text) ==
    IF text = <<>> THEN <<>>
    ELSE IF Len(text) >= 2 /\ text[1].tok = "fence" /\ text[2].tok = "json"
    THEN IF Len(text) >= 3 /\ text[3].tok = "nl"
         THEN StripFences(SubSeq(text, 4, Len(text)))
         ELSE StripFences(SubSeq(text, 3, Len(text)))
    ELSE IF Len(text) >= 2 /\ text[1].tok = "nl" /\ text[2].tok = "fence"
    THEN StripFences(SubSeq(text, 3, Len(text)))
    ELSE IF text[1].tok = "fence"
    THEN StripFences(Tail(text))
    ELSE <<Head(text)>> \o StripFences(Tail(text))

\* JSON.parse: white space around the one document is allowed, anything
\* else is a SyntaxError
JsonParse(text) ==
    LET body == SelectSeq(text, LAMBDA t : t.tok # "nl")
    IN  IF Len(body) = 1 /\ body[1].tok = "doc"
        THEN [threw |-> FALSE, doc |-> body[1].doc]
        ELSE [threw |-> TRUE, doc |-> NoDoc]

\* ------------------------------------------------------ callDashScope
\* What the exchange with the LLM service does once the request is sent:
\* kind "ok" (a completion with content text), "http" (response.ok is
\* false, with a status), "network" (fetch rejects) or "envelope" (a
\* success response without choices[0].message).
Exchange(kind, status, text) == [kind |-> kind, status |-> status, text |-> text]

Completed(text) == [threw |-> FALSE, text |-> text, message |-> <<>>]
Thrown(message) == [threw |-> TRUE, text |-> <<>>, message |-> message]

\* error messages are sequences of words and separators
MissingKeyMessage == <<"Missing", " ", "DASHSCOPE", "_", "API", "_", "KEY">>
HttpErrorMessage(status) ==
    <<"DashScope", " ", "API", " ", "Error:", " ", status, " ", "body">>
FetchFailedMessage == <<"Failed", " ", "to", " ", "fetch">>
EnvelopeMessage == <<"Cannot", " ", "read", " ", "properties">>

CallDashScope(key, ex) ==
    IF ~key THEN Thrown(MissingKeyMessage)
    ELSE CASE ex.kind = "network" -> Thrown(FetchFailedMessage)
           [] ex.kind = "http" -> Thrown(HttpErrorMessage(ex.status))
           [] ex.kind = "envelope" -> Thrown(EnvelopeMessage)
           [] OTHER -> Completed(ex.text)

\* ------------------------------------------------------- orchestrators
\* What a call settles with: it returned (null, a list, an object, or an
\* import result with an optional syllabus and optional questions) or it
\* raised.  id is the identifier the orchestrator gave a syllabus.
Returned(isNull, list, obj, id) ==
    [out |-> "returned", isNull |-> isNull, list |-> list, obj |-> obj,
     id |-> id, err |-> <<>>]
ReturnedNull == Returned(TRUE, Absent, NoDoc, "")
ReturnedList(v) == Returned(FALSE, v, NoDoc, "")
ReturnedObject(d) == Returned(FALSE, Absent, d, "")
Raised(message) ==
    [out |-> "raised", isNull |-> FALSE, list |-> Absent, obj |-> NoDoc,
     id |-> "", err |-> message]

\* Date.now() + Math.random().toString(36).substr(2, 9): the k-th
\* identifier handed out; the suffix keeps them apart
GenIds == <<"1001", "1002", "1003", "1004", "1005", "1006", "1007", "1008">>
FreshIds(from, n) == [i \in 1..n |-> GenIds[from + i]]

\* a mutation of ParseQuestionList: the SyntaxError of JSON.parse escapes
ParseQuestionListUncaught(call) ==
    IF call.threw THEN ReturnedList(JList(<<>>))
    ELSE LET p == JsonParse(StripFences(call.text))
         IN  IF p.threw THEN Raised(<<"SyntaxError">>)
             ELSE IF p.doc.kind = "null" THEN ReturnedList(JList(<<>>))
             ELSE IF Truthy(p.doc.questions) THEN ReturnedList(p.doc.questions)
             ELSE ReturnedList(JList(<<>>))

\* the try block of generateQuiz and generateQuizFromKnowledgeBase:
\* return json.questions || [], and [] from the catch
ParseQuestionList(call) ==
    IF call.threw THEN ReturnedList(JList(<<>>))
    ELSE LET p == JsonParse(StripFences(call.text))
         IN  IF p.threw THEN ReturnedList(JList(<<>>))
             ELSE IF p.doc.kind = "null" THEN ReturnedList(JList(<<>>))
             ELSE IF Truthy(p.doc.questions) THEN ReturnedList(p.doc.questions)
             ELSE ReturnedList(JList(<<>>))

GenerateQuizFromKnowledgeBase(key, ex) == ParseQuestionList(CallDashScope(key, ex))

GenerateQuiz(key, ex) == ParseQuestionList(CallDashScope(key, ex))

\* parseRawQuestions: json.questions.map(q => ({...q, id: fresh})); a
\* questions field that is no array makes .map throw into the catch
ParseRawQuestions(key, ex, issued) ==
    LET call == CallDashScope(key, ex)
    IN  IF call.threw THEN ReturnedList(JList(<<>>))
        ELSE LET p == JsonParse(StripFences(call.text))
             IN  IF p.threw \/ p.doc.kind = "null" THEN ReturnedList(JList(<<>>))
                 ELSE IF p.doc.questions.t = "list"
                 THEN ReturnedList(JList(FreshIds(issued, Len(p.doc.questions.items))))
                 ELSE ReturnedList(JList(<<>>))

\* parseSyllabus: {...json, id: Date.now().toString(), addedAt}
ParseSyllabus(key, ex, issued) ==
    LET call == CallDashScope(key, ex)
    IN  IF call.threw THEN ReturnedNull
        ELSE LET p == JsonParse(StripFences(call.text))
             IN  IF p.threw THEN ReturnedNull
                 ELSE Returned(FALSE, Absent, [p.doc EXCEPT !.kind = "object"],
                               GenIds[issued + 1])

\* a mutation of AnalyzeAndImportFile: the questions are read only when the
\* response carries no syllabus
AnalyzeAndImportFileEitherPart(key, ex, issued, hasParts) ==
    IF ~hasParts THEN ReturnedNull
    ELSE LET call == CallDashScope(key, ex)
         IN  IF call.threw THEN ReturnedNull
             ELSE LET p == JsonParse(StripFences(call.text))
                      hasSyl == Truthy(p.doc.syllabusData)
                      hasQs == ~hasSyl /\ p.doc.questionsData.t = "list"
                      n == IF hasQs THEN Len(p.doc.questionsData.items) ELSE 0
                  IN  IF p.threw \/ p.doc.kind = "null" THEN ReturnedNull
                      ELSE IF ~hasSyl /\ ~hasQs THEN ReturnedNull
                      ELSE Returned(FALSE,
                                    IF hasQs THEN JList(FreshIds(issued, n)) ELSE Absent,
                                    [EmptyObject EXCEPT
                                        !.syllabusData = p.doc.syllabusData],
                                    IF hasSyl THEN GenIds[issued + 1] ELSE "")

\* analyzeAndImportFile: null without content parts; otherwise the
\* syllabus and the questions that the response carries, null when neither
AnalyzeAndImportFile(key, ex, issued, hasParts) ==
    IF ~hasParts THEN ReturnedNull
    ELSE LET call == CallDashScope(key, ex)
         IN  IF call.threw THEN ReturnedNull
             ELSE LET p == JsonParse(StripFences(call.text))
                      hasSyl == Truthy(p.doc.syllabusData)
                      hasQs == p.doc.questionsData.t = "list"
                      n == IF hasQs THEN Len(p.doc.questionsData.items) ELSE 0
                      from == IF hasSyl THEN issued + 1 ELSE issued
                  IN  IF p.threw \/ p.doc.kind = "null" THEN ReturnedNull
                      ELSE IF ~hasSyl /\ ~hasQs THEN ReturnedNull
                      ELSE Returned(FALSE,
                                    IF hasQs THEN JList(FreshIds(from, n)) ELSE Absent,
                                    [EmptyObject EXCEPT
                                        !.syllabusData = p.doc.syllabusData],
                                    IF hasSyl THEN GenIds[issued + 1] ELSE "")

\* the fixed verdict of gradeAnswer's catch
FallbackVerdict ==
    [EmptyObject EXCEPT !.score = JNumber(0), !.isCorrect = JBoolean(FALSE),
                        !.feedback = JString(25)]

\* gradeAnswer: return JSON.parse(jsonStr) as GradingResult
GradeAnswer(key, ex) ==
    LET call == CallDashScope(key, ex)
    IN  IF call.threw THEN ReturnedObject(FallbackVerdict)
        ELSE LET p == JsonParse(StripFences(call.text))
             IN  IF p.threw THEN ReturnedObject(FallbackVerdict)
                 ELSE ReturnedObject(p.doc)

\* identifiers a call consumes
IdsUsed(fn, result) ==
    CASE fn = "parseRawQuestions" -> Len(result.list.items)
      [] fn = "parseSyllabus" -> IF result.isNull THEN 0 ELSE 1
      [] fn = "analyzeAndImportFile" ->
            IF result.isNull THEN 0
            ELSE Len(result.list.items) + (IF result.id = "" THEN 0 ELSE 1)
      [] OTHER -> 0

\* ----------------------------------------------------------- entities
Question(id, text, tags) == [id |-> id, text |-> text, tags |-> tags]
Module(title, keyPoints) == [title |-> title, keyPoints |-> keyPoints]
Syllabus(id, courseName, modules) ==
    [id |-> id, courseName |-> courseName, modules |-> modules]

INITIAL_BANK ==
    <<Question("init-1", <<"o", "s", "i">>, << <<"n", "e", "t">>, <<"T", "C", "P">> >>)>>

INITIAL_SYLLABUSES ==
    <<Syllabus("syl-1", <<"n", "e", "t">>,
               <<Module(<<"t", "c", "p">>, << <<"u", "d", "p">> >>)>>)>>

\* the filter of findRelevantSyllabuses
RelevantSyllabus(s, query) ==
    \/ Includes(ToLowerCase(s.courseName), ToLowerCase(query))
    \/ \E m \in 1..Len(s.modules) :
          \/ Includes(ToLowerCase(s.modules[m].title), ToLowerCase(query))
          \/ \E k \in 1..Len(s.modules[m].keyPoints) :
                Includes(ToLowerCase(s.modules[m].keyPoints[k]), ToLowerCase(query))

FindRelevantSyllabuses(store, query) ==
    SelectSeq(GetAll(store), LAMBDA x : RelevantSyllabus(x, query))

\* ------------------------------------------------------- import merger
Ids(list) == {list[i].id : i \in 1..Len(list)}

\* const existingIds = new Set(prev.map(x => x.id));
\* incoming.filter(x => !existingIds.has(x.id))
UniqueNew(existing, incoming) ==
    SelectSeq(incoming, LAMBDA x : x.id \notin Ids(existing))

\* loadData's updater: prev => [...prev, ...newQs]
LoadMerge(prev, stored) == prev \o UniqueNew(prev, stored)

\* handleImportKnowledgeBase: the collection handed to onUpdate..., from the
\* props the handler closed over; no update when nothing is new
ImportMerge(current, closedOver, imported) ==
    IF Len(UniqueNew(closedOver, imported)) > 0
    THEN closedOver \o UniqueNew(closedOver, imported)
    ELSE current

\* a merge as the history records it
MergeRecord(path, coll, before, incoming, after) ==
    [path |-> path, coll |-> coll, before |-> before, incoming |-> incoming,
     after |-> after]

\* ------------------------------------------------ QuizInterface state
\* a JavaScript number that a division produced: num / den
Fraction(num, den) == [num |-> num, den |-> den]

\* the question identifiers a session may carry
QuizQuestionIds == {"m1", "m2", "m3"}

UserAnswer(questionId, answer, isCorrect, score, aiFeedback) ==
    [questionId |-> questionId, answer |-> answer, isCorrect |-> isCorrect,
     score |-> score, aiFeedback |-> aiFeedback]

\* useState initial values of QuizInterface, and MOCK_STATS untouched
QuizStarts ==
    /\ stats = [quizzesAdded |-> 0, recentActivity |-> <<>>]
    /\ currentIdx = 0
    /\ answers = [id \in QuizQuestionIds |-> <<>>]
    /\ isSubmitting = FALSE
    /\ liveFeedback = <<>>
    /\ grading = <<>>

\* --------------------------------------------------- requests to the model
\* no request-building call has been made
NoRequest == [fn |-> "none", sent |-> FALSE, model |-> "", content |-> <<>>]
NoRequestYet ==
    /\ files = <<>>
    /\ request = NoRequest

\* ------------------------------------------------ App state at start-up
\* nothing has been deleted in the admin view
NoneDeleted == [questions |-> {}, syllabuses |-> {}]

LoadAt(pc, questions) == [pc |-> pc, questions |-> questions]

NoFile ==
    [valid |-> FALSE, hasSyllabuses |-> FALSE, syllabuses |-> <<>>,
     hasQuestionBank |-> FALSE, questionBank |-> <<>>]
ImpIdle ==
    [pc |-> "idle", file |-> NoFile, snapS |-> <<>>, snapQ |-> <<>>, i |-> 0,
     stage |-> "none"]

\* the handler has returned after the success alert
ImpDone == [ImpIdle EXCEPT !.pc = "done"]

GenIdle ==
    [pc |-> "idle", hasParts |-> FALSE, syllabus |-> <<>>, questions |-> <<>>,
     cause |-> "none", topic |-> <<>>, relevantExamples |-> <<>>,
     relevantSyllabuses |-> <<>>, readFailed |-> FALSE]

AppStarts ==
    /\ questionBank = INITIAL_BANK
    /\ syllabuses = INITIAL_SYLLABUSES
    /\ view = "DASHBOARD"
    /\ currentSession = <<>>
    /\ isLoading = FALSE
    /\ previewQuestions = <<>>
    /\ previewSyllabus = <<>>
    /\ load = LoadAt("getAllQuestions", <<>>)
    /\ imp = ImpIdle
    /\ gen = GenIdle
    /\ alert = "none"
    /\ ops = 0
    /\ lastMerges = <<>>
    /\ addedQ = {}
    /\ addedS = {}
    /\ deleted = NoneDeleted
    /\ QuizStarts
    /\ NoRequestYet

\* ------------------------------------------------- SpecStore: the inputs
StoreQuestionIds == {"a1", "a2", "a3"}
StoreTexts == {<<"a", "B">>, <<"c">>}
StoreTagLists == {<<>>, << <<"c", "c">>, <<"A">> >>}
StoreQuestions ==
    {q \in [id : StoreQuestionIds, text : StoreTexts, tags : StoreTagLists] :
        q.text = <<"c">> <=> q.tags # <<>>}
StoreSyllabuses ==
    {s \in [id : {"s1", "s2"}, courseName : {<<"a">>, <<"B">>}] :
        s.id = "s2" => s.courseName = <<"a">>}
Queries == {<<>>, <<"a">>, <<"A", "b">>, <<"C">>, <<"b", "a">>}

Written == Len(writtenQ) + Len(writtenS)

Min(a, b) == IF a <= b THEN a ELSE b

\* the batches that still fit into the history bound
QuestionBatches ==
    UNION {[1..n -> StoreQuestions] : n \in 0..Min(MaxBatch, MaxLog - Written)}

NoRead ==
    [op |-> "none", ok |-> TRUE, query |-> <<>>, questions |-> <<>>,
     syllabuses |-> <<>>]
NoCall == [op |-> "none", ok |-> TRUE, batch |-> <<>>]

\* no orchestrator call yet
NoExchange == Exchange("none", "", <<>>)
NoResult ==
    [out |-> "none", isNull |-> FALSE, list |-> Absent, obj |-> NoDoc,
     id |-> "", err |-> <<>>]
NoOrch ==
    [fn |-> "none", phase |-> "idle", hasParts |-> FALSE, requests |-> 0,
     ex |-> NoExchange, result |-> NoResult]

EmptyStore ==
    /\ dbQuestions = <<>>
    /\ dbSyllabuses = <<>>

NoStoreHistory ==
    /\ writtenQ = <<>>
    /\ writtenS = <<>>
    /\ lastWrite = NoCall
    /\ lastRead = NoRead

LlmIdle ==
    /\ nextGen = 0
    /\ orch = NoOrch

InitStore ==
    /\ EmptyStore
    /\ NoStoreHistory
    /\ apiKey = TRUE
    /\ LlmIdle
    /\ AppStarts

\* saveQuestion resolves: request.onsuccess
SaveQuestionOk(q) ==
    /\ Written < MaxLog
    /\ dbQuestions' = Put(dbQuestions, q)
    /\ writtenQ' = Append(writtenQ, q)
    /\ lastWrite' = [op |-> "saveQuestion", ok |-> TRUE, batch |-> <<>>]
    /\ lastRead' = NoRead
    /\ UNCHANGED <<dbSyllabuses, writtenS, llmVars, appVars>>

\* saveQuestion rejects: initDB fails or request.onerror; nothing is stored
SaveQuestionFail ==
    /\ lastWrite' = [op |-> "saveQuestion", ok |-> FALSE, batch |-> <<>>]
    /\ lastRead' = NoRead
    /\ UNCHANGED <<dbQuestions, dbSyllabuses, writtenQ, writtenS, llmVars, appVars>>

\* saveQuestions resolves: transaction.oncomplete, every put is visible
SaveQuestionsOk(batch) ==
    /\ dbQuestions' = PutAll(dbQuestions, batch)
    /\ writtenQ' = writtenQ \o batch
    /\ lastWrite' = [op |-> "saveQuestions", ok |-> TRUE, batch |-> batch]
    /\ lastRead' = NoRead
    /\ UNCHANGED <<dbSyllabuses, writtenS, llmVars, appVars>>

\* saveQuestions rejects: transaction.onerror, the transaction is aborted
SaveQuestionsFail ==
    /\ lastWrite' = [op |-> "saveQuestions", ok |-> FALSE, batch |-> <<>>]
    /\ lastRead' = NoRead
    /\ UNCHANGED <<dbQuestions, dbSyllabuses, writtenQ, writtenS, llmVars, appVars>>

SaveSyllabusOk(s) ==
    /\ Written < MaxLog
    /\ dbSyllabuses' = Put(dbSyllabuses, s)
    /\ writtenS' = Append(writtenS, s)
    /\ lastWrite' = [op |-> "saveSyllabus", ok |-> TRUE, batch |-> <<>>]
    /\ lastRead' = NoRead
    /\ UNCHANGED <<dbQuestions, writtenQ, llmVars, appVars>>

SaveSyllabusFail ==
    /\ lastWrite' = [op |-> "saveSyllabus", ok |-> FALSE, batch |-> <<>>]
    /\ lastRead' = NoRead
    /\ UNCHANGED <<dbQuestions, dbSyllabuses, writtenQ, writtenS, llmVars, appVars>>

GetAllQuestions ==
    /\ lastRead' = [op |-> "getAllQuestions", ok |-> TRUE, query |-> <<>>,
                    questions |-> GetAll(dbQuestions), syllabuses |-> <<>>]
    /\ UNCHANGED <<dbQuestions, dbSyllabuses, writtenQ, writtenS, lastWrite, llmVars, appVars>>

GetAllSyllabuses ==
    /\ lastRead' = [op |-> "getAllSyllabuses", ok |-> TRUE, query |-> <<>>,
                    questions |-> <<>>, syllabuses |-> GetAll(dbSyllabuses)]
    /\ UNCHANGED <<dbQuestions, dbSyllabuses, writtenQ, writtenS, lastWrite, llmVars, appVars>>

\* findRelevantQuestions resolves with the filtered scan
FindRelevantQuestionsOk(query) ==
    /\ lastRead' = [op |-> "findRelevantQuestions", ok |-> TRUE,
                    query |-> query,
                    questions |-> FindRelevantQuestions(dbQuestions, query),
                    syllabuses |-> <<>>]
    /\ UNCHANGED <<dbQuestions, dbSyllabuses, writtenQ, writtenS, lastWrite, llmVars, appVars>>

\* getAllQuestions rejects inside findRelevantQuestions: it rejects too
FindRelevantQuestionsFail(query) ==
    /\ lastRead' = [op |-> "findRelevantQuestions", ok |-> FALSE,
                    query |-> query, questions |-> <<>>, syllabuses |-> <<>>]
    /\ UNCHANGED <<dbQuestions, dbSyllabuses, writtenQ, writtenS, lastWrite, llmVars, appVars>>

NextStore ==
    \/ \E q \in StoreQuestions : SaveQuestionOk(q)
    \/ SaveQuestionFail
    \/ \E b \in QuestionBatches : SaveQuestionsOk(b)
    \/ SaveQuestionsFail
    \/ \E s \in StoreSyllabuses : SaveSyllabusOk(s)
    \/ SaveSyllabusFail
    \/ GetAllQuestions
    \/ GetAllSyllabuses
    \/ \E query \in Queries : FindRelevantQuestionsOk(query)
    \/ \E query \in Queries : FindRelevantQuestionsFail(query)

SpecStore == InitStore /\ [][NextStore]_vars

\* ---------------------------------------------- SpecLLM: orchestrator calls
\* the documents a model may answer with
QuestionsDoc(v) == [EmptyObject EXCEPT !.questions = v]
VerdictDoc(score, isCorrect, feedback) ==
    [EmptyObject EXCEPT !.score = score, !.isCorrect = isCorrect,
                        !.feedback = feedback]
ImportDoc(syl, qs) ==
    [EmptyObject EXCEPT !.syllabusData = syl, !.questionsData = qs]

LlmDocs ==
    {JsonNull, JsonNumber, JsonArray, EmptyObject,
     QuestionsDoc(JList(<<"m1", "m2">>)), QuestionsDoc(JList(<<"m1", "m1">>)),
     QuestionsDoc(JList(<<>>)), QuestionsDoc(JString(4)), QuestionsDoc(JNull),
     QuestionsDoc(JObject),
     VerdictDoc(JNumber(80), JBoolean(TRUE), JString(9)),
     VerdictDoc(JNumber(80), JBoolean(TRUE), Absent),
     VerdictDoc(Absent, Absent, JString(9)),
     ImportDoc(JObject, JList(<<"m1">>)), ImportDoc(JObject, Absent),
     ImportDoc(Absent, JList(<<"m1", "m1">>)), ImportDoc(Absent, JString(4)),
     ImportDoc(Absent, JList(<<>>))}

\* the texts a document arrives in
Plain(d) == <<DocTok(d)>>
Fenced(d) ==
    <<Tok("fence"), Tok("json"), Tok("nl"), DocTok(d), Tok("nl"), Tok("fence")>>
FencedBare(d) == <<Tok("fence"), Tok("nl"), DocTok(d), Tok("nl"), Tok("fence")>>
FencedAfterNewline(d) == <<Tok("nl")>> \o Fenced(d)
WithProse(d) == <<Tok("prose"), Tok("nl")>> \o Fenced(d)

LlmTexts ==
    {<<>>, <<Tok("prose")>>, <<Tok("fence"), Tok("json"), Tok("nl"), Tok("prose")>>}
    \cup {Plain(d) : d \in LlmDocs}
    \cup {Fenced(d) : d \in LlmDocs}
    \cup {FencedBare(d) : d \in LlmDocs}
    \cup {FencedAfterNewline(d) : d \in LlmDocs}
    \cup {WithProse(d) : d \in LlmDocs}

FailedExchanges ==
    {Exchange("http", "401", <<>>), Exchange("http", "403", <<>>),
     Exchange("http", "500", <<>>), Exchange("network", "", <<>>),
     Exchange("envelope", "", <<>>)}

LlmExchanges == FailedExchanges \cup {Exchange("ok", "200", t) : t \in LlmTexts}

OrchestratorNames ==
    {"generateQuizFromKnowledgeBase", "generateQuiz", "parseRawQuestions",
     "parseSyllabus", "analyzeAndImportFile", "gradeAnswer"}

\* what the call of fn settles with
Orchestrate(fn, key, ex, issued, hasParts) ==
    CASE fn = "generateQuizFromKnowledgeBase" -> GenerateQuizFromKnowledgeBase(key, ex)
      [] fn = "generateQuiz" -> GenerateQuiz(key, ex)
      [] fn = "parseRawQuestions" -> ParseRawQuestions(key, ex, issued)
      [] fn = "parseSyllabus" -> ParseSyllabus(key, ex, issued)
      [] fn = "analyzeAndImportFile" -> AnalyzeAndImportFile(key, ex, issued, hasParts)
      [] fn = "gradeAnswer" -> GradeAnswer(key, ex)

InitLLM ==
    /\ EmptyStore
    /\ NoStoreHistory
    /\ apiKey \in BOOLEAN
    /\ LlmIdle
    /\ AppStarts

\* the call has returned
Settled == orch.phase \in {"done", "failed"}

\* the catch block of fn runs: callDashScope threw, JSON.parse threw, a
\* property of null was read (json.questions, json.syllabusData) or .map
\* was called on a questions field that is no array
Caught(fn, call) ==
    \/ call.threw
    \/ LET p == JsonParse(StripFences(call.text))
       IN  \/ p.threw
           \/ /\ p.doc.kind = "null"
              /\ fn \in {"generateQuizFromKnowledgeBase", "generateQuiz",
                         "parseRawQuestions", "analyzeAndImportFile"}
           \/ fn = "parseRawQuestions" /\ p.doc.questions.t # "list"

\* an orchestrator is called and starts to build its prompt and content
OrchStart(fn, hasParts) ==
    /\ orch.phase \in {"idle", "done", "failed"}
    /\ nextGen < MaxGen
    /\ orch' = [fn |-> fn, phase |-> "building-context", hasParts |-> hasParts,
                requests |-> 0, ex |-> NoExchange, result |-> NoResult]
    /\ UNCHANGED <<storeVars, storeHistory, apiKey, nextGen, appVars>>

\* the messages are built.  analyzeAndImportFile without content parts
\* returns null here; the others enter callDashScope, which calls fetch
\* when the credential is there
OrchBuilt ==
    /\ orch.phase = "building-context"
    /\ orch' = IF orch.fn = "analyzeAndImportFile" /\ ~orch.hasParts
               THEN [orch EXCEPT !.phase = "done", !.result = ReturnedNull]
               ELSE [orch EXCEPT !.phase = "awaiting-model",
                                 !.requests = @ + (IF apiKey THEN 1 ELSE 0)]
    /\ UNCHANGED <<storeVars, storeHistory, apiKey, nextGen, appVars>>

\* callDashScope throws before fetch: no credential; the catch returns
OrchNoCredential ==
    /\ orch.phase = "awaiting-model"
    /\ ~apiKey
    /\ LET r == Orchestrate(orch.fn, apiKey, NoExchange, nextGen, orch.hasParts)
       IN  /\ orch' = [orch EXCEPT !.phase = "failed", !.result = r]
           /\ nextGen' = nextGen + IdsUsed(orch.fn, r)
    /\ UNCHANGED <<storeVars, storeHistory, apiKey, appVars>>

\* a mutation of OrchSettle: a failed exchange is sent again
OrchSettleRetries(ex) ==
    /\ orch.phase = "awaiting-model"
    /\ apiKey
    /\ LET r == Orchestrate(orch.fn, apiKey, ex, nextGen, orch.hasParts)
       IN  /\ nextGen + IdsUsed(orch.fn, r) <= MaxGen
           /\ orch' = IF CallDashScope(apiKey, ex).threw
                      THEN [orch EXCEPT !.requests = @ + 1]
                      ELSE [orch EXCEPT !.phase = "parsing", !.ex = ex]
    /\ UNCHANGED <<storeVars, storeHistory, apiKey, nextGen, appVars>>

\* the exchange with the model ends: callDashScope throws into the catch,
\* or returns the content text, which is then parsed
OrchSettle(ex) ==
    /\ orch.phase = "awaiting-model"
    /\ apiKey
    /\ LET r == Orchestrate(orch.fn, apiKey, ex, nextGen, orch.hasParts)
       IN  /\ nextGen + IdsUsed(orch.fn, r) <= MaxGen
           /\ orch' = IF CallDashScope(apiKey, ex).threw
                      THEN [orch EXCEPT !.phase = "failed", !.ex = ex, !.result = r]
                      ELSE [orch EXCEPT !.phase = "parsing", !.ex = ex]
    /\ UNCHANGED <<storeVars, storeHistory, apiKey, nextGen, appVars>>

\* replace, JSON.parse and the return statement, or the catch
OrchParsed ==
    /\ orch.phase = "parsing"
    /\ LET r == Orchestrate(orch.fn, apiKey, orch.ex, nextGen, orch.hasParts)
       IN  /\ orch' = [orch EXCEPT
                         !.phase = IF Caught(orch.fn, CallDashScope(apiKey, orch.ex))
                                   THEN "failed" ELSE "done",
                         !.result = r]
           /\ nextGen' = nextGen + IdsUsed(orch.fn, r)
    /\ UNCHANGED <<storeVars, storeHistory, apiKey, appVars>>

NextLLM ==
    \/ \E fn \in OrchestratorNames, hasParts \in BOOLEAN : OrchStart(fn, hasParts)
    \/ OrchBuilt
    \/ OrchNoCredential
    \/ \E ex \in LlmExchanges : OrchSettle(ex)
    \/ OrchParsed

SpecLLM == InitLLM /\ [][NextLLM]_vars

\* the code after an await runs to its return once the await has settled,
\* and callDashScope without a credential throws at once
SpecLLMLive == SpecLLM /\ WF_vars(OrchParsed) /\ WF_vars(OrchNoCredential)

\* ------------------------------------------ SpecApp: App and AdminDashboard
\* what a previous run of the application left in the store
StoredBefore ==
    {<<>>, <<Question("a1", <<"t", "c", "p">>, <<>>)>>}
StoredSyllabusesBefore ==
    {<<>>, <<Syllabus("s1", <<"o", "s">>, <<>>)>>}

\* backup files: the arrays under syllabuses and questionBank
FileSyllabusLists ==
    {<<>>,
     <<Syllabus("s1", <<"O", "S">>, <<>>), Syllabus("s2", <<"d", "b">>, <<>>)>>,
     <<Syllabus("s2", <<"d", "b">>, <<>>), Syllabus("s2", <<"D", "B">>, <<>>)>>}
FileQuestionLists ==
    {<<>>,
     <<Question("a1", <<"T", "C", "P">>, <<>>), Question("a2", <<"u", "d", "p">>, <<>>)>>,
     <<Question("a2", <<"u", "d", "p">>, <<>>), Question("a2", <<"U", "D", "P">>, <<>>)>>}
BackupFile(hasSyllabuses, ss, hasQuestionBank, qs) ==
    [valid |-> TRUE, hasSyllabuses |-> hasSyllabuses, syllabuses |-> ss,
     hasQuestionBank |-> hasQuestionBank, questionBank |-> qs]
\* NoFile stands for a file that is no JSON document
BackupFiles ==
    {NoFile}
    \cup {BackupFile(TRUE, ss, TRUE, qs) :
             ss \in FileSyllabusLists, qs \in FileQuestionLists}
    \cup {BackupFile(FALSE, <<>>, TRUE, qs) : qs \in FileQuestionLists \ {<<>>}}
    \cup {BackupFile(TRUE, ss, FALSE, <<>>) : ss \in FileSyllabusLists \ {<<>>}}

InitApp ==
    /\ dbQuestions \in StoredBefore
    /\ dbSyllabuses \in StoredSyllabusesBefore
    /\ NoStoreHistory
    /\ apiKey \in BOOLEAN
    /\ LlmIdle
    /\ AppStarts

\* --- loadData: await getAllQuestions(); await getAllSyllabuses(); merge
LoadGetAllQuestionsOk ==
    /\ load.pc = "getAllQuestions"
    /\ load' = LoadAt("getAllSyllabuses", GetAll(dbQuestions))
    /\ lastMerges' = <<>>
    /\ UNCHANGED <<storeVars, storeHistory, quizVars, reqVars, llmVars, memVars, sessionVars,
                   previewVars, imp, gen, alert, ops, addedQ, addedS, deleted>>

\* a read rejects: the catch logs it, nothing is merged
LoadReadFails ==
    /\ load.pc \in {"getAllQuestions", "getAllSyllabuses"}
    /\ load' = LoadAt("done", <<>>)
    /\ lastMerges' = <<>>
    /\ UNCHANGED <<storeVars, storeHistory, quizVars, reqVars, llmVars, memVars, sessionVars,
                   previewVars, imp, gen, alert, ops, addedQ, addedS, deleted>>

LoadGetAllSyllabusesOk ==
    /\ load.pc = "getAllSyllabuses"
    /\ LET stored == GetAll(dbSyllabuses)
           newBank == IF Len(load.questions) > 0
                      THEN LoadMerge(questionBank, load.questions)
                      ELSE questionBank
           newSyllabuses == IF Len(stored) > 0
                            THEN LoadMerge(syllabuses, stored)
                            ELSE syllabuses
       IN  /\ questionBank' = newBank
           /\ syllabuses' = newSyllabuses
           /\ lastMerges' =
                 <<MergeRecord("loadData", "questions", questionBank,
                               load.questions, newBank),
                   MergeRecord("loadData", "syllabuses", syllabuses, stored,
                               newSyllabuses)>>
           /\ addedQ' = addedQ \cup (Ids(newBank) \ Ids(questionBank))
           /\ addedS' = addedS \cup (Ids(newSyllabuses) \ Ids(syllabuses))
    /\ load' = LoadAt("done", <<>>)
    /\ UNCHANGED <<storeVars, storeHistory, quizVars, reqVars, llmVars, sessionVars, previewVars,
                   imp, gen, alert, ops, deleted>>

\* --- handleImportKnowledgeBase
\* the user picks a backup file; the handler closes over the props
\* syllabuses and questionBank of the current render
HandleImportKnowledgeBase(file) ==
    /\ imp.pc \in {"idle", "done", "failed"}
    /\ ops < MaxOps
    /\ ops' = ops + 1
    /\ imp' = [pc |-> "readFile", file |-> file, snapS |-> syllabuses,
               snapQ |-> questionBank, i |-> 0, stage |-> "parse"]
    /\ lastMerges' = <<>>
    /\ UNCHANGED <<storeVars, storeHistory, quizVars, reqVars, llmVars, memVars, sessionVars,
                   previewVars, load, gen, alert, addedQ, addedS, deleted>>

\* after the syllabus part: await saveQuestions, or the success alert
ImportAfterSyllabuses(file) ==
    IF file.hasQuestionBank THEN "saveQuestions" ELSE "done"

\* await file.text(); JSON.parse; up to the first store call
ImportFileRead ==
    /\ imp.pc = "readFile"
    /\ LET file == imp.file
           next == IF ~file.valid THEN "failed"
                   ELSE IF file.hasSyllabuses /\ Len(file.syllabuses) > 0
                   THEN "saveSyllabus"
                   ELSE ImportAfterSyllabuses(file)
       IN  /\ imp' = IF next = "done" THEN ImpDone
                      ELSE [imp EXCEPT
                               !.pc = next,
                               !.i = IF next = "saveSyllabus" THEN 1 ELSE 0,
                               !.stage = IF next = "failed" THEN "parse"
                                         ELSE IF next = "saveSyllabus"
                                         THEN "syllabuses" ELSE "questions"]
           /\ alert' = CASE next = "failed" -> "importFail"
                         [] next = "done" -> "importOk"
                         [] OTHER -> alert
    /\ lastMerges' = <<>>
    /\ UNCHANGED <<storeVars, storeHistory, quizVars, reqVars, llmVars, memVars, sessionVars,
                   previewVars, load, gen, ops, addedQ, addedS, deleted>>

\* await saveSyllabus(s) resolves; after the last one the state is updated
ImportSaveSyllabusOk ==
    /\ imp.pc = "saveSyllabus"
    /\ dbSyllabuses' = Put(dbSyllabuses, imp.file.syllabuses[imp.i])
    /\ IF imp.i < Len(imp.file.syllabuses)
       THEN /\ imp' = [imp EXCEPT !.i = imp.i + 1]
            /\ lastMerges' = <<>>
            /\ UNCHANGED <<syllabuses, alert, addedS>>
       ELSE LET merged == ImportMerge(syllabuses, imp.snapS, imp.file.syllabuses)
                next == ImportAfterSyllabuses(imp.file)
            IN  /\ syllabuses' = merged
                /\ lastMerges' =
                      <<MergeRecord("handleImportKnowledgeBase", "syllabuses",
                                    syllabuses, imp.file.syllabuses, merged)>>
                /\ addedS' = addedS \cup (Ids(merged) \ Ids(syllabuses))
                /\ imp' = IF next = "done" THEN ImpDone
                           ELSE [imp EXCEPT !.pc = next, !.stage = "questions"]
                /\ alert' = IF next = "done" THEN "importOk" ELSE alert
    /\ deleted' = [deleted EXCEPT !.syllabuses = @ \ {imp.file.syllabuses[imp.i].id}]
    /\ UNCHANGED <<dbQuestions, storeHistory, quizVars, reqVars, llmVars, questionBank, sessionVars,
                   previewVars, load, gen, ops, addedQ>>

\* a store write of the import rejects: the catch alerts the failure
ImportSaveFails ==
    /\ imp.pc \in {"saveSyllabus", "saveQuestions"}
    /\ imp' = [imp EXCEPT !.pc = "failed"]
    /\ alert' = "importFail"
    /\ lastMerges' = <<>>
    /\ UNCHANGED <<storeVars, storeHistory, quizVars, reqVars, llmVars, memVars, sessionVars,
                   previewVars, load, gen, ops, addedQ, addedS, deleted>>

\* await saveQuestions(importedQuestions) resolves; the bank is updated
ImportSaveQuestionsOk ==
    /\ imp.pc = "saveQuestions"
    /\ dbQuestions' = PutAll(dbQuestions, imp.file.questionBank)
    /\ LET merged == ImportMerge(questionBank, imp.snapQ, imp.file.questionBank)
       IN  /\ questionBank' = merged
           /\ lastMerges' =
                 <<MergeRecord("handleImportKnowledgeBase", "questions",
                               questionBank, imp.file.questionBank, merged)>>
           /\ addedQ' = addedQ \cup (Ids(merged) \ Ids(questionBank))
    /\ imp' = ImpDone
    /\ alert' = "importOk"
    /\ deleted' = [deleted EXCEPT !.questions = @ \ Ids(imp.file.questionBank)]
    /\ UNCHANGED <<dbSyllabuses, storeHistory, quizVars, reqVars, llmVars, syllabuses, sessionVars,
                   previewVars, load, gen, ops, addedS>>

\* --- handleGenerateQuiz
\* what the model answers during a run of the application
AppExchanges ==
    {Exchange("ok", "200", Fenced(ImportDoc(JObject, JList(<<"m1", "m2">>)))),
     Exchange("ok", "200", Plain(ImportDoc(JObject, Absent))),
     Exchange("ok", "200", Plain(QuestionsDoc(JList(<<"m1", "m2">>)))),
     Exchange("ok", "200", <<Tok("prose")>>),
     Exchange("http", "401", <<>>),
     Exchange("network", "", <<>>)}

\* the entities an orchestrator hands over, with the identifiers it gave
\* them; their content is what the model wrote
ExtractedQuestions(v) ==
    IF v.t = "list"
    THEN [i \in 1..Len(v.items) |-> Question(v.items[i], <<"x">>, <<>>)]
    ELSE <<>>
ExtractedSyllabus(id) == Syllabus(id, <<"x">>, <<>>)

\* e.message of a rejected store request
StoreErrorMessage == <<"The", " ", "transaction", " ", "was", " ", "aborted">>

\* the catch of handleGenerateQuiz: which alert the message selects
GenAlertFor(message) ==
    IF \/ Includes(message, <<"API", " ", "key">>)
       \/ Includes(message, <<"403">>)
       \/ Includes(message, <<"401">>)
    THEN "credential"
    ELSE "network"

\* why a model call of the handler did not produce a completion
FailureCause(key, ex) ==
    IF ~key THEN "credential"
    ELSE IF ex.kind \in {"http", "network", "envelope"} THEN ex.kind
    ELSE "none"

\* onGenerate(files, config): setIsLoading(true), then the first await
GenStart(hasFiles, hasParts) ==
    /\ gen.pc \in {"idle", "done", "failed"}
    /\ ~isLoading
    /\ ops < MaxOps
    /\ ops' = ops + 1
    /\ isLoading' = TRUE
    /\ gen' = [GenIdle EXCEPT !.pc = IF hasFiles THEN "analyze" ELSE "search",
                              !.hasParts = hasFiles /\ hasParts]
    /\ lastMerges' = <<>>
    /\ UNCHANGED <<storeVars, storeHistory, quizVars, reqVars, llmVars, memVars, view,
                   currentSession, previewVars, load, imp, alert, addedQ, addedS, deleted>>

\* await analyzeAndImportFile(files, config.topic) settles
GenAnalyzed(ex) ==
    /\ gen.pc = "analyze"
    /\ LET r == AnalyzeAndImportFile(apiKey, ex, nextGen, gen.hasParts)
           syl == IF ~r.isNull /\ r.id # "" THEN <<ExtractedSyllabus(r.id)>>
                  ELSE <<>>
           qs == IF r.isNull THEN <<>> ELSE ExtractedQuestions(r.list)
       IN  /\ nextGen + IdsUsed("analyzeAndImportFile", r) <= MaxGen
           /\ nextGen' = nextGen + IdsUsed("analyzeAndImportFile", r)
           /\ gen' = [gen EXCEPT
                        !.pc = IF Len(syl) > 0 THEN "saveSyllabus"
                               ELSE IF Len(qs) > 0 THEN "saveQuestions"
                               ELSE "search",
                        !.syllabus = syl,
                        !.questions = qs,
                        !.cause = IF gen.hasParts THEN FailureCause(apiKey, ex)
                                  ELSE "none"]
    /\ lastMerges' = <<>>
    /\ UNCHANGED <<storeVars, storeHistory, quizVars, reqVars, apiKey, orch, memVars, sessionVars,
                   previewVars, load, imp, alert, ops, addedQ, addedS, deleted>>

\* await saveSyllabus(newSyllabus) resolves; setSyllabuses(prev => [new, ...prev])
GenSaveSyllabusOk ==
    /\ gen.pc = "saveSyllabus"
    /\ dbSyllabuses' = Put(dbSyllabuses, gen.syllabus[1])
    /\ syllabuses' = gen.syllabus \o syllabuses
    /\ lastMerges' = <<MergeRecord("handleGenerateQuiz", "syllabuses", syllabuses,
                                   gen.syllabus, gen.syllabus \o syllabuses)>>
    /\ addedS' = addedS \cup (Ids(gen.syllabus) \ Ids(syllabuses))
    /\ gen' = [gen EXCEPT !.pc = IF Len(gen.questions) > 0 THEN "saveQuestions"
                                 ELSE "search"]
    /\ UNCHANGED <<dbQuestions, storeHistory, quizVars, reqVars, llmVars, questionBank, sessionVars,
                   previewVars, load, imp, alert, ops, addedQ, deleted>>

\* await saveQuestions(newQuestions) resolves;
\* setQuestionBank(prev => [...prev, ...newQuestions])
GenSaveQuestionsOk ==
    /\ gen.pc = "saveQuestions"
    /\ dbQuestions' = PutAll(dbQuestions, gen.questions)
    /\ questionBank' = questionBank \o gen.questions
    /\ lastMerges' = <<MergeRecord("handleGenerateQuiz", "questions", questionBank,
                                   gen.questions, questionBank \o gen.questions)>>
    /\ addedQ' = addedQ \cup (Ids(gen.questions) \ Ids(questionBank))
    /\ gen' = [gen EXCEPT !.pc = "search"]
    /\ UNCHANGED <<dbSyllabuses, storeHistory, quizVars, reqVars, llmVars, syllabuses, sessionVars,
                   previewVars, load, imp, alert, ops, addedS, deleted>>

\* a save of the handler rejects: the outer catch alerts, finally clears
\* the loading flag
GenSaveFails ==
    /\ gen.pc \in {"saveSyllabus", "saveQuestions"}
    /\ gen' = [gen EXCEPT !.pc = "failed"]
    /\ alert' = GenAlertFor(StoreErrorMessage)
    /\ isLoading' = FALSE
    /\ lastMerges' = <<>>
    /\ UNCHANGED <<storeVars, storeHistory, quizVars, reqVars, llmVars, memVars, view,
                   currentSession, previewVars, load, imp, ops, addedQ, addedS, deleted>>

\* findRelevantQuestions and findRelevantSyllabuses settle; a rejection is
\* caught by the inner catch; what they found only feeds the prompt
GenSearched ==
    /\ gen.pc = "search"
    /\ gen' = [gen EXCEPT !.pc = "generate"]
    /\ lastMerges' = <<>>
    /\ UNCHANGED <<storeVars, storeHistory, quizVars, reqVars, llmVars, memVars, sessionVars,
                   previewVars, load, imp, alert, ops, addedQ, addedS, deleted>>

\* a session as handleGenerateQuiz creates it
NewSession(questions) ==
    [questions |-> questions, answers |-> [id \in QuizQuestionIds |-> <<>>],
     isCompleted |-> FALSE, score |-> Fraction(0, 1)]

\* await generateQuizFromKnowledgeBase(...) settles; the session is
\* created and the quiz view shown
GenGenerated(ex) ==
    /\ gen.pc = "generate"
    /\ LET r == GenerateQuizFromKnowledgeBase(apiKey, ex)
       IN  /\ currentSession' = <<NewSession(r.list)>>
           /\ gen' = [GenIdle EXCEPT
                        !.pc = "done",
                        !.cause = IF gen.cause # "none" THEN gen.cause
                                  ELSE FailureCause(apiKey, ex)]
    /\ view' = "QUIZ"
    /\ isLoading' = FALSE
    /\ lastMerges' = <<>>
    /\ UNCHANGED <<storeVars, storeHistory, quizVars, reqVars, llmVars, memVars, previewVars, load,
                   imp, alert, ops, addedQ, addedS, deleted>>

\* --- AdminDashboard: paste, preview, commit
\* handleImportQuestions: setPreviewQuestions(await parseRawQuestions(...))
HandleImportQuestions(ex) ==
    /\ ops < MaxOps
    /\ LET r == ParseRawQuestions(apiKey, ex, nextGen)
       IN  /\ nextGen + IdsUsed("parseRawQuestions", r) <= MaxGen
           /\ nextGen' = nextGen + IdsUsed("parseRawQuestions", r)
           /\ previewQuestions' = ExtractedQuestions(r.list)
    /\ ops' = ops + 1
    /\ lastMerges' = <<>>
    /\ UNCHANGED <<storeVars, storeHistory, quizVars, reqVars, apiKey, orch, memVars, sessionVars,
                   previewSyllabus, load, imp, gen, alert, addedQ, addedS, deleted>>

\* commitImportQuestions; the button exists while the preview is not empty
CommitImportQuestions ==
    /\ Len(previewQuestions) > 0
    /\ questionBank' = questionBank \o previewQuestions
    /\ previewQuestions' = <<>>
    /\ lastMerges' = <<MergeRecord("commitImportQuestions", "questions",
                                   questionBank, previewQuestions,
                                   questionBank \o previewQuestions)>>
    /\ addedQ' = addedQ \cup (Ids(previewQuestions) \ Ids(questionBank))
    /\ UNCHANGED <<storeVars, storeHistory, quizVars, reqVars, llmVars, syllabuses, sessionVars,
                   previewSyllabus, load, imp, gen, alert, ops, addedS, deleted>>

\* handleImportSyllabus: setPreviewSyllabus(await parseSyllabus(...))
HandleImportSyllabus(ex) ==
    /\ ops < MaxOps
    /\ LET r == ParseSyllabus(apiKey, ex, nextGen)
       IN  /\ nextGen + IdsUsed("parseSyllabus", r) <= MaxGen
           /\ nextGen' = nextGen + IdsUsed("parseSyllabus", r)
           /\ previewSyllabus' = IF r.isNull THEN <<>>
                                 ELSE <<ExtractedSyllabus(r.id)>>
    /\ ops' = ops + 1
    /\ lastMerges' = <<>>
    /\ UNCHANGED <<storeVars, storeHistory, quizVars, reqVars, apiKey, orch, memVars, sessionVars,
                   previewQuestions, load, imp, gen, alert, addedQ, addedS, deleted>>

\* commitImportSyllabus: if (previewSyllabus) ...
CommitImportSyllabus ==
    /\ Len(previewSyllabus) > 0
    /\ syllabuses' = syllabuses \o previewSyllabus
    /\ previewSyllabus' = <<>>
    /\ lastMerges' = <<MergeRecord("commitImportSyllabus", "syllabuses",
                                   syllabuses, previewSyllabus,
                                   syllabuses \o previewSyllabus)>>
    /\ addedS' = addedS \cup (Ids(previewSyllabus) \ Ids(syllabuses))
    /\ UNCHANGED <<storeVars, storeHistory, quizVars, reqVars, llmVars, questionBank, sessionVars,
                   previewQuestions, load, imp, gen, alert, ops, addedQ, deleted>>

NextApp ==
    \/ LoadGetAllQuestionsOk
    \/ LoadReadFails
    \/ LoadGetAllSyllabusesOk
    \/ \E file \in BackupFiles : HandleImportKnowledgeBase(file)
    \/ ImportFileRead
    \/ ImportSaveSyllabusOk
    \/ ImportSaveFails
    \/ ImportSaveQuestionsOk
    \/ \E hasFiles \in BOOLEAN, hasParts \in BOOLEAN : GenStart(hasFiles, hasParts)
    \/ \E ex \in AppExchanges : GenAnalyzed(ex)
    \/ GenSaveSyllabusOk
    \/ GenSaveQuestionsOk
    \/ GenSaveFails
    \/ GenSearched
    \/ \E ex \in AppExchanges : GenGenerated(ex)
    \/ \E ex \in AppExchanges : HandleImportQuestions(ex)
    \/ CommitImportQuestions
    \/ \E ex \in AppExchanges : HandleImportSyllabus(ex)
    \/ CommitImportSyllabus

SpecApp == InitApp /\ [][NextApp]_vars

\* ------------------------------------- SpecAdmin: deleting and restarting
\* the navigation bar's switch to the admin view
OpenAdmin ==
    /\ view = "DASHBOARD"
    /\ view' = "ADMIN"
    /\ lastMerges' = <<>>
    /\ UNCHANGED <<storeVars, storeHistory, llmVars, memVars, currentSession, isLoading,
                   previewVars, load, imp, gen, alert, ops, addedQ, addedS, deleted,
                   quizVars, reqVars>>

\* the delete button of a question card:
\* onUpdateBank(questionBank.filter(x => x.id !== q.id)); the store has no
\* delete operation and is not touched
DeleteQuestion(id) ==
    /\ view = "ADMIN"
    /\ ops < MaxOps
    /\ id \in Ids(questionBank)
    /\ questionBank' = SelectSeq(questionBank, LAMBDA x : x.id # id)
    /\ deleted' = [deleted EXCEPT !.questions = @ \cup {id}]
    /\ ops' = ops + 1
    /\ lastMerges' = <<>>
    /\ UNCHANGED <<storeVars, storeHistory, llmVars, syllabuses, sessionVars, previewVars,
                   load, imp, gen, alert, addedQ, addedS, quizVars, reqVars>>

\* the delete button of a syllabus card:
\* onUpdateSyllabuses(syllabuses.filter(x => x.id !== s.id))
DeleteSyllabus(id) ==
    /\ view = "ADMIN"
    /\ ops < MaxOps
    /\ id \in Ids(syllabuses)
    /\ syllabuses' = SelectSeq(syllabuses, LAMBDA x : x.id # id)
    /\ deleted' = [deleted EXCEPT !.syllabuses = @ \cup {id}]
    /\ ops' = ops + 1
    /\ lastMerges' = <<>>
    /\ UNCHANGED <<storeVars, storeHistory, llmVars, questionBank, sessionVars, previewVars,
                   load, imp, gen, alert, addedQ, addedS, quizVars, reqVars>>

\* the page is closed and the application started again: the React state
\* has its initial values and the start-up effect runs loadData; IndexedDB
\* keeps what it held
Restart ==
    /\ load.pc = "done"
    /\ imp.pc \in {"idle", "done", "failed"}
    /\ deleted # NoneDeleted
    /\ questionBank' = INITIAL_BANK
    /\ syllabuses' = INITIAL_SYLLABUSES
    /\ view' = "DASHBOARD"
    /\ load' = LoadAt("getAllQuestions", <<>>)
    /\ imp' = ImpIdle
    /\ alert' = "none"
    /\ lastMerges' = <<>>
    /\ addedQ' = {}
    /\ addedS' = {}
    /\ UNCHANGED <<storeVars, storeHistory, llmVars, currentSession, isLoading, previewVars,
                   gen, ops, deleted, quizVars, reqVars>>

\* the backup files picked here: those that hold what a previous run stored
AdminBackupFiles ==
    {f \in BackupFiles : "a1" \in Ids(f.questionBank) \/ "s1" \in Ids(f.syllabuses)}

NextAdmin ==
    \/ LoadGetAllQuestionsOk
    \/ LoadReadFails
    \/ LoadGetAllSyllabusesOk
    \/ OpenAdmin
    \/ \E id \in Ids(questionBank) : DeleteQuestion(id)
    \/ \E id \in Ids(syllabuses) : DeleteSyllabus(id)
    \/ \E file \in AdminBackupFiles : HandleImportKnowledgeBase(file)
    \/ ImportFileRead
    \/ ImportSaveSyllabusOk
    \/ ImportSaveFails
    \/ ImportSaveQuestionsOk
    \/ Restart

SpecAdmin == InitApp /\ [][NextAdmin]_vars

\* ------------------------------------------------ SpecQuiz: QuizInterface
\* the question lists of the sessions a learner takes; the model may repeat
\* an identifier
QuizSessions ==
    {<<"m1">>, <<"m1", "m2">>, <<"m1", "m2", "m3">>, <<"m1", "m1">>}

\* what the learner may enter
AnswerValues == {"A", "B"}

\* what the model answers to a grading request; the scores are numbers
QuizExchanges ==
    {Exchange("ok", "200", Fenced(VerdictDoc(JNumber(100), JBoolean(TRUE), JString(9)))),
     Exchange("ok", "200", Plain(VerdictDoc(JNumber(50), JBoolean(FALSE), JString(9)))),
     Exchange("ok", "200", Plain(VerdictDoc(Absent, JBoolean(TRUE), JString(9)))),
     Exchange("ok", "200", Plain(JsonNull)),
     Exchange("ok", "200", <<Tok("prose")>>),
     Exchange("http", "500", <<>>)}

\* curr.score || 0
ScoreOrZero(entry) ==
    IF Len(entry) > 0 /\ Truthy(entry[1].score) THEN entry[1].score.n ELSE 0

\* Object.values(answers).reduce((acc, curr) => acc + (curr.score || 0), 0)
RECURSIVE SumScores(_, _)
SumScores(ans, ids) ==
    IF ids = {} THEN 0
    ELSE LET id == CHOOSE x \in ids : TRUE
         IN  ScoreOrZero(ans[id]) + SumScores(ans, ids \ {id})

\* a learner is in a quiz that handleGenerateQuiz has started
InitQuiz ==
    /\ EmptyStore
    /\ NoStoreHistory
    /\ apiKey \in BOOLEAN
    /\ LlmIdle
    /\ questionBank = INITIAL_BANK
    /\ syllabuses = INITIAL_SYLLABUSES
    /\ view = "QUIZ"
    /\ currentSession \in {<<NewSession(JList(qs))>> : qs \in QuizSessions}
    /\ isLoading = FALSE
    /\ previewQuestions = <<>>
    /\ previewSyllabus = <<>>
    /\ load = LoadAt("done", <<>>)
    /\ imp = ImpIdle
    /\ gen = [GenIdle EXCEPT !.pc = "done"]
    /\ alert = "none"
    /\ ops = 0
    /\ lastMerges = <<>>
    /\ addedQ = {}
    /\ addedS = {}
    /\ deleted = NoneDeleted
    /\ QuizStarts
    /\ NoRequestYet

quizRest ==
    <<storeVars, storeHistory, llmVars, memVars, previewVars, load, imp, gen,
      alert, ops, mergeHistory, reqVars>>

\* a mutation of HandleAnswerChange: the entry is stored under the
\* identifier of the question after the current one
HandleAnswerChangeNextKey(val) ==
    /\ view = "QUIZ"
    /\ LET id == currentSession[1].questions.items[currentIdx + 1]
           next == IF id = "m1" THEN "m2" ELSE "m3"
       IN  /\ answers' = [answers EXCEPT
                            ![next] = <<UserAnswer(id, val, Absent, Absent, Absent)>>]
           /\ liveFeedback' = IF Len(liveFeedback) > 0
                                 /\ liveFeedback[1].questionId = id
                              THEN <<>>
                              ELSE liveFeedback
    /\ UNCHANGED <<quizRest, sessionVars, stats, currentIdx, isSubmitting, grading>>

\* handleAnswerChange(val)
HandleAnswerChange(val) ==
    /\ view = "QUIZ"
    /\ LET id == currentSession[1].questions.items[currentIdx + 1]
       IN  /\ answers' = [answers EXCEPT
                            ![id] = <<UserAnswer(id, val, Absent, Absent, Absent)>>]
           /\ liveFeedback' = IF Len(liveFeedback) > 0
                                 /\ liveFeedback[1].questionId = id
                              THEN <<>>
                              ELSE liveFeedback
    /\ UNCHANGED <<quizRest, sessionVars, stats, currentIdx, isSubmitting, grading>>

\* checkSingleAnswer up to its await; the button is shown without live
\* feedback and enabled with an answer and no request in flight
CheckSingleAnswer ==
    /\ view = "QUIZ"
    /\ Len(liveFeedback) = 0
    /\ ~isSubmitting
    /\ LET id == currentSession[1].questions.items[currentIdx + 1]
       IN  /\ Len(answers[id]) > 0
           /\ grading' = answers[id]
    /\ isSubmitting' = TRUE
    /\ UNCHANGED <<quizRest, sessionVars, stats, currentIdx, answers, liveFeedback>>

\* a variant of GradeSettled in which the verdict is merged, in the
\* updater, into the entry the mapping holds when the await settles
GradeSettledOntoCurrent(ex) ==
    /\ isSubmitting
    /\ LET result == GradeAnswer(apiKey, ex).obj
           current == answers[grading[1].questionId][1]
           enrichedAnswer == UserAnswer(current.questionId, current.answer,
                                        result.isCorrect, result.score,
                                        result.feedback)
       IN  IF result.kind = "null"
           THEN UNCHANGED <<answers, liveFeedback>>
           ELSE /\ answers' = [answers EXCEPT
                                 ![grading[1].questionId] = <<enrichedAnswer>>]
                /\ liveFeedback' = <<enrichedAnswer>>
    /\ isSubmitting' = FALSE
    /\ grading' = <<>>
    /\ UNCHANGED <<quizRest, sessionVars, stats, currentIdx>>

\* await gradeAnswer(question, userAns.answer) settles; reading a field
\* of null throws into the catch
GradeSettled(ex) ==
    /\ isSubmitting
    /\ LET result == GradeAnswer(apiKey, ex).obj
           enrichedAnswer == UserAnswer(grading[1].questionId, grading[1].answer,
                                        result.isCorrect, result.score,
                                        result.feedback)
       IN  IF result.kind = "null"
           THEN UNCHANGED <<answers, liveFeedback>>
           ELSE /\ answers' = [answers EXCEPT
                                 ![grading[1].questionId] = <<enrichedAnswer>>]
                /\ liveFeedback' = <<enrichedAnswer>>
    /\ isSubmitting' = FALSE
    /\ grading' = <<>>
    /\ UNCHANGED <<quizRest, sessionVars, stats, currentIdx>>

\* handleFinish: the session handed to onFinish
FinishedSession ==
    LET session == currentSession[1]
        totalScore == SumScores(answers, {id \in QuizQuestionIds : Len(answers[id]) > 0})
    IN  [session EXCEPT
            !.answers = answers,
            !.score = Fraction(totalScore, Len(session.questions.items)),
            !.isCompleted = TRUE]

\* handleNext; the button is shown with live feedback.  On the last
\* question: handleFinish, then handleQuizFinish in App
HandleNext ==
    /\ view = "QUIZ"
    /\ Len(liveFeedback) > 0
    /\ liveFeedback' = <<>>
    /\ IF currentIdx < Len(currentSession[1].questions.items) - 1
       THEN /\ currentIdx' = currentIdx + 1
            /\ UNCHANGED <<sessionVars, stats>>
       ELSE /\ currentSession' = <<FinishedSession>>
            /\ stats' =
                  [quizzesAdded |-> stats.quizzesAdded + 1,
                   recentActivity |->
                      Append(stats.recentActivity,
                             Fraction(FinishedSession.score.num * 100,
                                      FinishedSession.score.den))]
            /\ view' = "RESULTS"
            /\ UNCHANGED <<currentIdx, isLoading>>
    /\ UNCHANGED <<quizRest, answers, isSubmitting, grading>>

\* the navigation bar while the quiz is shown: setView('DASHBOARD') or
\* setView('ADMIN').  QuizInterface is unmounted and its state discarded; a
\* grading still in flight settles without effect.  currentSession stays.
LeaveQuiz(to) ==
    /\ view = "QUIZ"
    /\ view' = to
    /\ currentIdx' = 0
    /\ answers' = [id \in QuizQuestionIds |-> <<>>]
    /\ isSubmitting' = FALSE
    /\ liveFeedback' = <<>>
    /\ grading' = <<>>
    /\ UNCHANGED <<quizRest, currentSession, isLoading, stats>>

NextQuiz ==
    \/ \E val \in AnswerValues : HandleAnswerChange(val)
    \/ CheckSingleAnswer
    \/ \E ex \in QuizExchanges : GradeSettled(ex)
    \/ HandleNext
    \/ \E to \in {"DASHBOARD", "ADMIN"} : LeaveQuiz(to)

SpecQuiz == InitQuiz /\ [][NextQuiz]_vars

\* the exchange with the model ends (fetch resolves or rejects), so the
\* await of gradeAnswer settles; the learner's own steps are not forced
SpecQuizLive ==
    SpecQuiz /\ WF_vars(\E ex \in QuizExchanges : GradeSettled(ex))

\* ------------------------------------------------ SpecRequest: the inputs
\* An uploaded file: its MIME type as <<major, minor>>, and what its data
\* holds: "image", "pdf" (a PDF that pdf.js loads and renders), "pdfNoCanvas"
\* (a PDF that loads but is not rendered), "utf8" (text), "notUtf8" (bytes
\* that are no UTF-8 text), "empty" (0 bytes) or "notBase64" (a data string
\* that atob rejects); pages is the page count of a PDF.
UploadedFile(type, holds, pages) == [type |-> type, holds |-> holds, pages |-> pages]

\* Math.min(pdf.numPages, 30)
MaxPdfImages == 30

UploadedFiles ==
    {UploadedFile(<<"image", "png">>, "image", 0),
     UploadedFile(<<"application", "pdf">>, "pdf", 1),
     UploadedFile(<<"application", "pdf">>, "pdf", 2),
     UploadedFile(<<"application", "pdf">>, "pdf", MaxPdfImages + 1),
     UploadedFile(<<"application", "pdf">>, "pdfNoCanvas", 2),
     UploadedFile(<<"application", "pdf">>, "utf8", 0),
     UploadedFile(<<"application", "pdf">>, "empty", 0),
     UploadedFile(<<"text", "plain">>, "utf8", 0),
     UploadedFile(<<"text", "plain">>, "notUtf8", 0),
     UploadedFile(<<"text", "plain">>, "empty", 0),
     UploadedFile(<<"text", "plain">>, "notBase64", 0)}

FileLists == UNION {[1..n -> UploadedFiles] : n \in 0..MaxFiles}

\* a content part; src is the position of the file it was made from (0 for
\* the instruction text), page the PDF page of an image or its label
ImagePart(src, page) == [type |-> "image_url", src |-> src, page |-> page, text |-> <<>>]
TextPart(src, page, text) == [type |-> "text", src |-> src, page |-> page, text |-> text]

\* f.type.startsWith('image/')
IsImageType(f) == f.type[1] = "image"
\* f.type === 'application/pdf'
IsPdfType(f) == f.type = <<"application", "pdf">>

\* a mutation of ConvertPDFToImages: every page is rendered
ConvertPDFToImagesAllPages(f) ==
    IF f.holds = "pdf" THEN f.pages ELSE 0

\* convertPDFToImages: the number of page images; [] from the catch
ConvertPDFToImages(f) ==
    IF f.holds = "pdf" THEN Min(f.pages, MaxPdfImages) ELSE 0

\* extractTextFromPDF: the text of all pages; "" from the catch
ExtractTextFromPDF(f) ==
    IF f.holds \in {"pdf", "pdfNoCanvas"} THEN <<"Page">> ELSE <<>>

\* decodeBase64: atob, then TextDecoder('utf-8').decode, which replaces
\* malformed bytes by U+FFFD and does not throw; "" from the catch of atob
DecodeBase64(f) ==
    CASE f.holds = "notBase64" -> <<>>
      [] f.holds = "empty" -> <<>>
      [] f.holds = "utf8" -> <<"t">>
      [] OTHER -> <<"U+FFFD">>

\* pdfImages.forEach((img, idx) => push image, push "PDF Page idx+1 of name")
PdfImageParts(src, n) ==
    [k \in 1..(2 * n) |->
        IF k % 2 = 1 THEN ImagePart(src, (k + 1) \div 2)
        ELSE TextPart(src, k \div 2, <<"PDF Page">>)]

\* the parts one file adds in the loop of analyzeAndImportFile
ImportPartsOf(f, src) ==
    IF IsImageType(f) THEN <<ImagePart(src, 0)>>
    ELSE IF IsPdfType(f)
    THEN IF ConvertPDFToImages(f) > 0
         THEN PdfImageParts(src, ConvertPDFToImages(f))
         ELSE IF ExtractTextFromPDF(f) # <<>>
         THEN <<TextPart(src, 0, <<"PDF Material">> \o ExtractTextFromPDF(f))>>
         ELSE <<>>
    ELSE IF DecodeBase64(f) # <<>>
    THEN <<TextPart(src, 0, <<"Material">> \o DecodeBase64(f))>>
    ELSE <<>>

\* the parts one file adds in the loop of generateQuiz
QuizPartsOf(f, src) ==
    IF IsImageType(f) THEN <<ImagePart(src, 0)>>
    ELSE IF IsPdfType(f)
    THEN IF ExtractTextFromPDF(f) # <<>>
         THEN <<TextPart(src, 0, <<"PDF Context">> \o ExtractTextFromPDF(f))>>
         ELSE <<>>
    ELSE IF DecodeBase64(f) # <<>>
    THEN <<TextPart(src, 0, <<"Context Material">> \o DecodeBase64(f))>>
    ELSE <<>>

\* for (const f of files) { ... contentParts.push(...) }
RECURSIVE ImportParts(_, _)
ImportParts(fs, i) ==
    IF i > Len(fs) THEN <<>>
    ELSE ImportPartsOf(fs[i], i) \o ImportParts(fs, i + 1)

RECURSIVE QuizParts(_, _)
QuizParts(fs, i) ==
    IF i > Len(fs) THEN <<>>
    ELSE QuizPartsOf(fs[i], i) \o QuizParts(fs, i + 1)

\* hasImage of analyzeAndImportFile: set in the image branch and in the
\* branch of a PDF that gave page images
ImportHasImage(fs) ==
    \E i \in 1..Len(fs) :
        \/ IsImageType(fs[i])
        \/ IsPdfType(fs[i]) /\ ConvertPDFToImages(fs[i]) > 0

\* a mutation of QuizHasImages: a PDF counts as an image, as it does in
\* analyzeAndImportFile
QuizHasImagesCountsPdf(fs) ==
    \E i \in 1..Len(fs) : IsImageType(fs[i]) \/ IsPdfType(fs[i])

\* hasImages of generateQuiz: set in the image branch
QuizHasImages(fs) == \E i \in 1..Len(fs) : IsImageType(fs[i])

\* hasImage ? "qwen-vl-max" : "qwen-plus"
ModelFor(hasImage) == IF hasImage THEN "qwen-vl-max" ELSE "qwen-plus"

\* the request of analyzeAndImportFile; none when there is no content part
ImportRequest(fs) ==
    IF ImportParts(fs, 1) = <<>>
    THEN [fn |-> "analyzeAndImportFile", sent |-> FALSE, model |-> "",
          content |-> <<>>]
    ELSE [fn |-> "analyzeAndImportFile", sent |-> TRUE,
          model |-> ModelFor(ImportHasImage(fs)),
          content |-> ImportParts(fs, 1) \o <<TextPart(0, 0, <<"Analyze">>)>>]

\* the request of generateQuiz
QuizRequest(fs) ==
    [fn |-> "generateQuiz", sent |-> TRUE, model |-> ModelFor(QuizHasImages(fs)),
     content |-> QuizParts(fs, 1) \o <<TextPart(0, 0, <<"Topic">>)>>]

\* what a learner may submit to gradeAnswer: a string, or a File whose
\* read gives data, gives no data (0 bytes) or fails
SubmittedAnswers == {"string", "file", "emptyFile", "unreadableFile"}
GradedQuestionTypes == {"DIAGRAM", "ESSAY"}

\* imageBase64 of gradeAnswer is truthy
HasImageBase64(questionType, answer) ==
    questionType = "DIAGRAM" /\ answer = "file"

\* the request of gradeAnswer
GradeRequest(questionType, answer) ==
    [fn |-> "gradeAnswer", sent |-> TRUE,
     model |-> ModelFor(HasImageBase64(questionType, answer)),
     content |->
        <<TextPart(0, 0, <<"Question">>)>> \o
        (IF HasImageBase64(questionType, answer)
         THEN <<ImagePart(0, 0), TextPart(0, 0, <<"Student submitted">>)>>
         ELSE <<TextPart(0, 0, <<"Student Answer">>)>>)]

\* -------------------------------------- SpecRequest: building the requests
InitRequest ==
    /\ EmptyStore
    /\ NoStoreHistory
    /\ apiKey = TRUE
    /\ LlmIdle
    /\ AppStarts

reqRest ==
    <<storeVars, storeHistory, llmVars, memVars, sessionVars, previewVars, load,
      imp, gen, alert, ops, mergeHistory, quizVars>>

\* the user picks files in UploadSection
PickFiles(fs) ==
    /\ files' = fs
    /\ request' = NoRequest
    /\ UNCHANGED reqRest

\* analyzeAndImportFile(files, topicHint) up to callDashScope
AnalyzeBuildsRequest ==
    /\ request' = ImportRequest(files)
    /\ UNCHANGED <<reqRest, files>>

\* generateQuiz(files, topic, difficulty, count) up to callDashScope
GenerateQuizBuildsRequest ==
    /\ request' = QuizRequest(files)
    /\ UNCHANGED <<reqRest, files>>

\* gradeAnswer(question, answer) up to callDashScope
GradeBuildsRequest(questionType, answer) ==
    /\ request' = GradeRequest(questionType, answer)
    /\ UNCHANGED <<reqRest, files>>

NextRequest ==
    \/ \E fs \in FileLists : PickFiles(fs)
    \/ AnalyzeBuildsRequest
    \/ GenerateQuizBuildsRequest
    \/ \E t \in GradedQuestionTypes, a \in SubmittedAnswers : GradeBuildsRequest(t, a)

SpecRequest == InitRequest /\ [][NextRequest]_vars

\* ------------------------------ SpecContext: retrieval and the quiz prompt
\* Steps 2 and 3 of handleGenerateQuiz on a filled store: the two searches,
\* the cut of the examples, the request of generateQuizFromKnowledgeBase
\* and the session made of its answer.

\* relevantExamples.slice(0, 5)
ExampleCap == 5

\* what earlier imports left in the store: questions on the topic "cab"
\* under generated identifiers, and one on something else
ContextBank ==
    <<Question("1001", <<"c", "a", "b">>, <<>>),
      Question("1002", <<"a", "a">>, << <<"C", "A", "B">> >>),
      Question("1003", <<"C", "a", "b">>, <<>>),
      Question("1004", <<"b">>, << <<"a">>, <<"a", "c", "a", "b">> >>),
      Question("1005", <<"c", "a", "b", "c">>, <<>>),
      Question("1006", <<"c", "a", "b">>, <<>>),
      Question("1007", <<"C", "A", "B">>, <<>>),
      Question("a1", <<"b", "b", "c">>, <<>>)>>

\* the stores: the questions of ContextBank from one position on, or up to
\* one position, in key order
ContextStores ==
    {SubSeq(ContextBank, i, Len(ContextBank)) : i \in 1..(Len(ContextBank) + 1)}
    \cup {SubSeq(ContextBank, 1, i) : i \in 0..Len(ContextBank)}

ContextSyllabusStores ==
    {<<>>,
     <<Syllabus("s1", <<"a", "a">>,
                <<Module(<<"C", "A", "B">>, << <<"b", "c">> >>)>>),
       Syllabus("s2", <<"a", "b">>, <<>>)>>}

Topics == {<<"c", "a", "b">>, <<"C", "a">>, <<"b", "b">>}

\* a section of the user message of generateQuizFromKnowledgeBase
Section(kind, id) == TextPart(0, 0, <<kind, id>>)

\* contextText and userMessage of generateQuizFromKnowledgeBase: the line
\* with topic, difficulty and count, the syllabus block, the block of
\* examples, the numbered instructions
KnowledgeBaseRequest(examples, relevant) ==
    [fn |-> "generateQuizFromKnowledgeBase", sent |-> TRUE, model |-> "qwen-plus",
     content |->
        <<Section("Topic Difficulty Generate", "")>>
        \o (IF Len(relevant) > 0
            THEN [i \in 1..Len(relevant) |-> Section("Course", relevant[i].id)]
            ELSE <<>>)
        \o (IF Len(examples) > 0
            THEN [i \in 1..Len(examples) |-> Section("Example", examples[i].id)]
            ELSE <<>>)
        \o <<Section("Instructions", "")>>]

InitContext ==
    /\ dbQuestions \in ContextStores
    /\ dbSyllabuses \in ContextSyllabusStores
    /\ NoStoreHistory
    /\ apiKey \in BOOLEAN
    /\ LlmIdle
    /\ questionBank = INITIAL_BANK
    /\ syllabuses = INITIAL_SYLLABUSES
    /\ view = "UPLOAD"
    /\ currentSession = <<>>
    /\ isLoading = TRUE
    /\ previewQuestions = <<>>
    /\ previewSyllabus = <<>>
    /\ load = LoadAt("done", <<>>)
    /\ imp = ImpIdle
    /\ gen \in {[GenIdle EXCEPT !.pc = "search", !.topic = t] : t \in Topics}
    /\ alert = "none"
    /\ ops = 0
    /\ lastMerges = <<>>
    /\ addedQ = {}
    /\ addedS = {}
    /\ deleted = NoneDeleted
    /\ QuizStarts
    /\ NoRequestYet

ctxRest ==
    <<storeVars, storeHistory, llmVars, memVars, previewVars, load, imp, ops,
      mergeHistory, quizVars, files>>

\* relevantExamples = await findRelevantQuestions(config.topic) resolves
CtxFindQuestionsOk ==
    /\ gen.pc = "search"
    /\ gen' = [gen EXCEPT
                 !.pc = "searchSyllabuses",
                 !.relevantExamples = FindRelevantQuestions(dbQuestions, gen.topic)]
    /\ UNCHANGED <<ctxRest, sessionVars, alert, request>>

\* relevantSyllabuses = await findRelevantSyllabuses(config.topic) resolves
CtxFindSyllabusesOk ==
    /\ gen.pc = "searchSyllabuses"
    /\ gen' = [gen EXCEPT
                 !.pc = "generate",
                 !.relevantSyllabuses = FindRelevantSyllabuses(dbSyllabuses, gen.topic)]
    /\ UNCHANGED <<ctxRest, sessionVars, alert, request>>

\* one of the two reads rejects: catch (dbError) { console.warn(...) }, and
\* the handler goes on with what was assigned before
CtxReadFails ==
    /\ gen.pc \in {"search", "searchSyllabuses"}
    /\ gen' = [gen EXCEPT !.pc = "generate", !.readFailed = TRUE]
    /\ UNCHANGED <<ctxRest, sessionVars, alert, request>>

\* a mutation of CtxBuildRequest: every retrieved example is passed on
CtxBuildRequestUncut ==
    /\ gen.pc = "generate"
    /\ request' = KnowledgeBaseRequest(gen.relevantExamples, gen.relevantSyllabuses)
    /\ gen' = [gen EXCEPT !.pc = "awaiting-model"]
    /\ UNCHANGED <<ctxRest, sessionVars, alert>>

\* examplesToUse = relevantExamples.slice(0, 5), and
\* generateQuizFromKnowledgeBase up to callDashScope
CtxBuildRequest ==
    /\ gen.pc = "generate"
    /\ LET examplesToUse ==
              SubSeq(gen.relevantExamples, 1, Min(ExampleCap, Len(gen.relevantExamples)))
       IN  request' = KnowledgeBaseRequest(examplesToUse, gen.relevantSyllabuses)
    /\ gen' = [gen EXCEPT !.pc = "awaiting-model"]
    /\ UNCHANGED <<ctxRest, sessionVars, alert>>

\* what the model answers to the generation request: the answers of
\* AppExchanges, and a list in which the model used one id for two questions
ContextExchanges ==
    AppExchanges \cup {Exchange("ok", "200", Plain(QuestionsDoc(JList(<<"m1", "m1">>))))}

\* await generateQuizFromKnowledgeBase(...) settles: the session is created
CtxGenerated(ex) ==
    /\ gen.pc = "awaiting-model"
    /\ currentSession' = <<NewSession(GenerateQuizFromKnowledgeBase(apiKey, ex).list)>>
    /\ view' = "QUIZ"
    /\ isLoading' = FALSE
    /\ gen' = [gen EXCEPT !.pc = "done"]
    /\ UNCHANGED <<ctxRest, alert, request>>

NextContext ==
    \/ CtxFindQuestionsOk
    \/ CtxFindSyllabusesOk
    \/ CtxReadFails
    \/ CtxBuildRequest
    \/ \E ex \in ContextExchanges : CtxGenerated(ex)

SpecContext == InitContext /\ [][NextContext]_vars

\* ---------------------------------------------------- SpecStore: claims
\* the entry of a history that was written last for its identifier
LastWriteOf(log, e) ==
    \E i \in 1..Len(log) :
        /\ log[i] = e
        /\ \A k \in (i + 1)..Len(log) : log[k].id # e.id

\* got holds one entity per identifier of the history, with the values of
\* the most recent write
OnePerIdNewestWins(got, log) ==
    /\ \A i \in 1..Len(log) : \E j \in 1..Len(got) : got[j].id = log[i].id
    /\ \A j, k \in 1..Len(got) : got[j].id = got[k].id => j = k
    /\ \A j \in 1..Len(got) : LastWriteOf(log, got[j])

\* C1: after any sequence of successful put / putMany calls, getAll returns
\* exactly one entity per identifier ever written, with the field values of
\* the most recent write (the later element wins inside one batch), and
\* entities stored earlier under other identifiers are still there.
C1_GetAllRoundTrip ==
    /\ OnePerIdNewestWins(GetAll(dbQuestions), writtenQ)
    /\ OnePerIdNewestWins(GetAll(dbSyllabuses), writtenS)
    /\ lastRead.op = "getAllQuestions"
          => OnePerIdNewestWins(lastRead.questions, writtenQ)
    /\ lastRead.op = "getAllSyllabuses"
          => OnePerIdNewestWins(lastRead.syllabuses, writtenS)

\* getAllQuestions has answered after a batch that collides on an identifier
\* with itself and overwrites an entity stored before, next to an entity
\* with another identifier
C1_Witness ==
    /\ lastRead.op = "getAllQuestions"
    /\ Len(lastRead.questions) = 2
    /\ Len(writtenQ) = 3
    /\ lastWrite.op = "saveQuestions"
    /\ lastWrite.batch = <<writtenQ[2], writtenQ[3]>>
    /\ writtenQ[1].id # writtenQ[2].id
    /\ writtenQ[2].id = writtenQ[3].id
    /\ writtenQ[2] # writtenQ[3]

\* the letters c and d are the same up to case
SameLetter(c, d) ==
    \/ c = d
    \/ <<c, d>> \in {<<"a", "A">>, <<"A", "a">>, <<"b", "B">>, <<"B", "b">>,
                     <<"c", "C">>, <<"C", "c">>}

\* needle is a substring of hay, case-insensitively
ContainsIgnoringCase(hay, needle) ==
    \E off \in 0..(Len(hay) - Len(needle)) :
        \A k \in 1..Len(needle) : SameLetter(hay[off + k], needle[k])

TagOrTextMatch(q, query) ==
    \/ \E i \in 1..Len(q.tags) : ContainsIgnoringCase(q.tags[i], query)
    \/ ContainsIgnoringCase(q.text, query)

\* res lists, in the order of all, exactly the elements of all that match
ExactlyTheMatchesInOrder(res, all, query) ==
    LET hits == {i \in 1..Len(all) : TagOrTextMatch(all[i], query)}
    IN  /\ Len(res) = Cardinality(hits)
        /\ \A j \in 1..Len(res) :
              \E k \in hits :
                  /\ Cardinality({i \in hits : i <= k}) = j
                  /\ res[j] = all[k]

\* C10: findRelevantQuestions(q) returns, in store scan order, exactly the
\* stored Questions with a tag or a prompt text that contains q as a
\* substring, case-insensitively; for the empty q it returns everything.
C10_FindRelevantQuestions ==
    (lastRead.op = "findRelevantQuestions" /\ lastRead.ok) =>
        /\ ExactlyTheMatchesInOrder(lastRead.questions, GetAll(dbQuestions),
                                    lastRead.query)
        /\ lastRead.query = <<>> => lastRead.questions = GetAll(dbQuestions)

\* a query in another case than the stored text selects the first and the
\* third of three stored questions and leaves the second out
C10_Witness ==
    /\ lastRead.op = "findRelevantQuestions"
    /\ lastRead.ok
    /\ lastRead.query = <<"A", "b">>
    /\ Len(dbQuestions) = 3
    /\ Len(lastRead.questions) = 2
    /\ lastRead.questions[1] = dbQuestions[1]
    /\ lastRead.questions[2] = dbQuestions[3]

\* ------------------------------------------------------ SpecLLM: claims
QuestionListCalls == {"generateQuizFromKnowledgeBase", "generateQuiz", "parseRawQuestions"}
NullableCalls == {"parseSyllabus", "analyzeAndImportFile"}

\* the model answered, and its text is no valid JSON once the fences are gone
AnsweredWithNonJson ==
    /\ Settled
    /\ orch.ex.kind = "ok"
    /\ JsonParse(StripFences(orch.ex.text)).threw

\* C7: a response text that is no valid JSON after fence stripping makes
\* the question-generation calls return an empty list and the syllabus and
\* import calls return null; none of them raises.
C7_NonJsonYieldsEmpty ==
    AnsweredWithNonJson =>
        /\ orch.result.out = "returned"
        /\ orch.fn \in QuestionListCalls =>
              /\ ~orch.result.isNull
              /\ orch.result.list = JList(<<>>)
        /\ orch.fn \in NullableCalls => orch.result.isNull

\* generateQuizFromKnowledgeBase got a fenced document after a newline:
\* the word json is left over and the text does not parse
C7_Witness ==
    /\ AnsweredWithNonJson
    /\ orch.fn = "generateQuizFromKnowledgeBase"
    /\ orch.ex.text = FencedAfterNewline(QuestionsDoc(JList(<<"m1", "m2">>)))
    /\ orch.result.list = JList(<<>>)

\* parseSyllabus got prose
C7_WitnessNull ==
    /\ AnsweredWithNonJson
    /\ orch.fn = "parseSyllabus"
    /\ orch.result.isNull

\* the model's answer to a grading request is malformed, or is JSON
\* without a feedback field
MalformedOrNoFeedback ==
    /\ Settled
    /\ orch.fn = "gradeAnswer"
    /\ \/ orch.ex.kind = "envelope"
       \/ /\ orch.ex.kind = "ok"
          /\ LET p == JsonParse(StripFences(orch.ex.text))
             IN  p.threw \/ p.doc.feedback.t = "absent"

\* C8: a grading response that is malformed, or parses but lacks the
\* feedback field, yields the fixed fallback verdict: score 0, isCorrect
\* false, a non-empty feedback text.
C8_FallbackVerdict ==
    MalformedOrNoFeedback =>
        /\ orch.result.out = "returned"
        /\ orch.result.obj.score = JNumber(0)
        /\ orch.result.obj.isCorrect = JBoolean(FALSE)
        /\ orch.result.obj.feedback.t = "string"
        /\ orch.result.obj.feedback.n > 0


\* a model call was made and did not produce a completion: the credential
\* is missing, or the service answered with a non-success status
ModelCallFailed ==
    /\ Settled
    /\ orch.fn = "analyzeAndImportFile" => orch.hasParts
    /\ ~apiKey \/ orch.ex.kind = "http"

\* C9: a model call that fails for a missing credential or a non-success
\* response settles the orchestrator call with a raised failure that
\* carries a message, never with an empty list, null or a fallback result
C9_ModelFailureSurfaced ==
    ModelCallFailed =>
        /\ orch.result.out = "raised"
        /\ Len(orch.result.err) > 0

\* ------------------------------------------------------ SpecApp: claims
NoDuplicateIds(list) ==
    \A i, j \in 1..Len(list) : list[i].id = list[j].id => i = j

\* the Import Merger's rule: E followed by the elements of I whose
\* identifier is not in ids(E), in input order
MergedByRule(m) == m.after = m.before \o UniqueNew(m.before, m.incoming)

\* C2: every merge that handleImportKnowledgeBase or loadData makes leaves
\* the existing collection followed by the incoming elements with a new
\* identifier, and leaves no identifier twice in the collection
C2_ImportMerger ==
    \A k \in 1..Len(lastMerges) :
        lastMerges[k].path \in {"handleImportKnowledgeBase", "loadData"} =>
            /\ MergedByRule(lastMerges[k])
            /\ NoDuplicateIds(lastMerges[k].after)

\* C3: on every path that adds entities to an in-memory collection
\* (handleGenerateQuiz, the admin commits, the backup import, loadData) the
\* result is the one the Import Merger's rule gives for the same E and I
C3_SameRuleOnEveryPath ==
    \A k \in 1..Len(lastMerges) : MergedByRule(lastMerges[k])

\* C4: every entity that a merge added to an in-memory collection is
\* present in the store
C4_PersistBeforeAppend ==
    /\ addedQ \subseteq Ids(dbQuestions)
    /\ addedS \subseteq Ids(dbSyllabuses)

\* C5: after a store write of a merge has failed, no entity of the failed
\* batch that the merge had already written to the store is missing from
\* memory, and no entity of the failed batch is in memory without being
\* in the store
C5_FailedWriteLeavesConsistent ==
    /\ imp.pc = "failed" /\ imp.stage = "syllabuses" =>
          \A k \in 1..(imp.i - 1) :
              imp.file.syllabuses[k].id \in Ids(syllabuses)
    /\ imp.pc = "failed" /\ imp.stage = "questions" =>
          \A k \in 1..Len(imp.file.questionBank) :
              imp.file.questionBank[k].id \in Ids(questionBank) =>
                  imp.file.questionBank[k].id \in Ids(dbQuestions)
    /\ gen.pc = "failed" =>
          \A k \in 1..Len(gen.questions) :
              gen.questions[k].id \notin Ids(questionBank)

\* ------------------------------------------------------ SpecQuiz: claims
\* the score a question of the session was graded with, 0 without one
QuestionScore(id) == ScoreOrZero(answers[id])

RECURSIVE SumOverQuestions(_)
SumOverQuestions(ids) ==
    IF ids = <<>> THEN 0
    ELSE QuestionScore(Head(ids)) + SumOverQuestions(Tail(ids))

\* C6: the score of a finalized session is the sum of its questions'
\* scores divided by the question count and by 100, and is at most 1
C6_SessionScore ==
    view = "RESULTS" =>
        LET session == currentSession[1]
            n == Len(session.questions.items)
        IN  /\ session.score.num * n * 100 =
                   SumOverQuestions(session.questions.items) * session.score.den
            /\ session.score.num <= session.score.den

\* the session of the example: three questions, graded 100 and 50, the
\* third without a score, finalized
C6_Example ==
    /\ view = "RESULTS"
    /\ currentSession[1].questions.items = <<"m1", "m2", "m3">>
    /\ QuestionScore("m1") = 100
    /\ QuestionScore("m2") = 50
    /\ QuestionScore("m3") = 0
    /\ currentSession[1].score = Fraction(150, 3)


\* --------------------------------------------------- SpecRequest: claims
\* a file whose processing fails: bytes that cannot be decoded, no bytes,
\* or a PDF that can be neither rasterized nor read
ProcessingFails(f) ==
    /\ ~IsImageType(f)
    /\ IF IsPdfType(f) THEN f.holds \notin {"pdf", "pdfNoCanvas"}
       ELSE f.holds \in {"empty", "notUtf8", "notBase64"}

FileLoopRequest == request.fn \in {"analyzeAndImportFile", "generateQuiz"}

\* the positions of the parts made from file i
PartsFrom(i) == {k \in 1..Len(request.content) : request.content[k].src = i}

\* C11: in the content that analyzeAndImportFile and generateQuiz build,
\* a file whose processing fails contributes no part, every other file
\* contributes its parts, and the parts stand in input-file order
C11_FailingFilesContributeNothing ==
    FileLoopRequest =>
        /\ \A i \in 1..Len(files) :
              ProcessingFails(files[i]) <=> PartsFrom(i) = {}
        /\ \A i, j \in 1..Len(files) :
              i < j => \A k \in PartsFrom(i), l \in PartsFrom(j) : k < l

\* ------------------------------------------- SpecLLM: identifiers returned
GenerationAndExtractionCalls ==
    {"generateQuizFromKnowledgeBase", "generateQuiz", "parseRawQuestions",
     "parseSyllabus", "analyzeAndImportFile"}

\* the identifiers the orchestrators hand out
AssignedIds == {GenIds[i] : i \in 1..Len(GenIds)}

\* the identifiers of the entities a settled call returned
ReturnedEntityIds ==
    {orch.result.list.items[i] : i \in 1..Len(orch.result.list.items)}
    \cup (IF orch.fn \in NullableCalls /\ ~orch.result.isNull
             /\ (orch.fn = "analyzeAndImportFile" => orch.result.id # "")
          THEN {orch.result.id} ELSE {})

\* C12: every entity that a generation or extraction call returns carries
\* an identifier that the orchestrator assigned; an identifier supplied by
\* the model is never kept.
C12_OrchestratorAssignedIds ==
    (Settled /\ orch.fn \in GenerationAndExtractionCalls
        /\ orch.result.out = "returned")
    => ReturnedEntityIds \subseteq AssignedIds

\* ------------------------------------------------- SpecRequest: the model
HasImagePart == \E k \in 1..Len(request.content) : request.content[k].type = "image_url"

\* C13: in every request that analyzeAndImportFile, generateQuiz and
\* gradeAnswer send, the model is qwen-vl-max exactly when the user content
\* holds at least one image part, and qwen-plus otherwise.
C13_VisionModelIffImagePart ==
    request.sent =>
        /\ request.model = (IF HasImagePart THEN "qwen-vl-max" ELSE "qwen-plus")
        /\ request.fn \in {"analyzeAndImportFile", "generateQuiz", "gradeAnswer"}

\* generateQuiz with a renderable PDF and a text file: PDFs are sent as
\* text there, so the request has no image part and goes to qwen-plus
C13_Witness ==
    /\ request.sent
    /\ request.fn = "generateQuiz"
    /\ \E i \in 1..Len(files) : IsPdfType(files[i]) /\ files[i].holds = "pdf"
    /\ ~HasImagePart
    /\ request.model = "qwen-plus"

\* ------------------------------------------- SpecLLM: mixed extraction
\* analyzeAndImportFile sent a request and the answer parsed to a document
ImportAnswerParsed ==
    /\ Settled
    /\ orch.fn = "analyzeAndImportFile"
    /\ orch.ex.kind = "ok"
    /\ ~JsonParse(StripFences(orch.ex.text)).threw

ImportAnswer == JsonParse(StripFences(orch.ex.text)).doc

\* the parts of the response: a syllabus object, an array of questions
HasSyllabusPart == ImportAnswer.syllabusData.t = "object"
HasQuestionListPart == ImportAnswer.questionsData.t = "list"

\* the parts of the result
ResultHasSyllabus == ~orch.result.isNull /\ orch.result.id # ""
ResultHasQuestions == ~orch.result.isNull /\ orch.result.list.t = "list"

\* C14: analyzeAndImportFile returns the syllabus when the response has a
\* syllabus part and the questions when it has a question-list part, each
\* independently of the other, and null only when neither was parsed.
C14_MixedExtraction ==
    ImportAnswerParsed =>
        /\ orch.result.out = "returned"
        /\ HasSyllabusPart => ResultHasSyllabus
        /\ HasQuestionListPart =>
              /\ ResultHasQuestions
              /\ Len(orch.result.list.items) = Len(ImportAnswer.questionsData.items)
        /\ orch.result.isNull => ~HasSyllabusPart /\ ~HasQuestionListPart

\* a response with both parts gives a result with both
C14_Witness ==
    /\ ImportAnswerParsed
    /\ HasSyllabusPart
    /\ HasQuestionListPart
    /\ ResultHasSyllabus
    /\ ResultHasQuestions
    /\ Len(orch.result.list.items) = 1

\* ------------------------------------------- SpecQuiz: the answer mapping
\* the keys of an answer mapping
AnswerKeys(mapping) == {id \in QuizQuestionIds : Len(mapping[id]) > 0}

SessionQuestionIds ==
    {currentSession[1].questions.items[i] :
        i \in 1..Len(currentSession[1].questions.items)}

KeysAreQuestionIds ==
    /\ AnswerKeys(answers) \subseteq SessionQuestionIds
    /\ AnswerKeys(currentSession[1].answers) \subseteq SessionQuestionIds

QuestionListKept ==
    currentSession'[1].questions = currentSession[1].questions

C16_NoLostUpdates ==
    /\ addedQ \subseteq Ids(questionBank)
    /\ addedS \subseteq Ids(syllabuses)

\* ------------------------------------------- SpecQuiz: session lifecycle
\* the completion flag is set together with the aggregate score
CompletedWithScore ==
    currentSession[1].isCompleted =>
        currentSession[1].score =
            Fraction(SumScores(currentSession[1].answers,
                               AnswerKeys(currentSession[1].answers)),
                     Len(currentSession[1].questions.items))

\* C17: a session is created with the completion flag false, the flag is
\* true only together with the computed aggregate score, and every session
\* whose quiz view the learner has left, by finishing or by abandoning it
\* before the last question, is finalized.
C17_SessionLifecycle ==
    /\ ~currentSession[1].isCompleted
    /\ [](CompletedWithScore)
    /\ (view # "QUIZ") ~> currentSession[1].isCompleted

\* ------------------------------------------- SpecLLM: the phases of a call
PhaseRank(phase) ==
    CASE phase = "idle" -> 0
      [] phase = "building-context" -> 1
      [] phase = "awaiting-model" -> 2
      [] phase = "parsing" -> 3
      [] OTHER -> 4

\* a step of the call in progress moves to the next phase or ends the call;
\* a new call starts with building-context when none is in progress
PhaseStep ==
    orch' # orch =>
        \/ /\ orch.phase \in {"idle", "done", "failed"}
           /\ orch'.phase = "building-context"
        \/ /\ orch.phase \in {"building-context", "awaiting-model", "parsing"}
           /\ orch'.fn = orch.fn
           /\ \/ PhaseRank(orch'.phase) = PhaseRank(orch.phase) + 1
              \/ orch'.phase \in {"done", "failed"}

ExchangeOver ==
    \/ orch.phase = "parsing"
    \/ orch.phase = "awaiting-model" /\ ~apiKey

\* C18: a call goes through idle, building-context, awaiting-model and
\* parsing in that order and ends in done or in failed, with a result; it
\* sends at most one request to the model; and once the exchange with the
\* model has returned or failed the call reaches done or failed.
C18_CallPhases ==
    /\ [][PhaseStep]_vars
    /\ [](orch.requests <= 1)
    /\ [](Settled => orch.result.out # "none")
    /\ ExchangeOver ~> Settled

\* the service answered HTTP 500: the call failed after its one request
C18_Witness ==
    /\ orch.phase = "failed"
    /\ orch.fn = "generateQuizFromKnowledgeBase"
    /\ orch.ex = Exchange("http", "500", <<>>)
    /\ orch.requests = 1

\* ------------------------------------------- SpecQuiz: grading and blocking
\* the graded entry of the question shown is recorded and displayed, which
\* is what shows the button that leads to the next question
VerdictRecorded ==
    LET id == currentSession[1].questions.items[currentIdx + 1]
    IN  /\ Len(liveFeedback) > 0
        /\ liveFeedback[1].questionId = id
        /\ answers[id] = liveFeedback

\* C19: grading never blocks the learner: whatever the model call of
\* gradeAnswer does, a quiz that is submitting an answer eventually stops
\* submitting with a verdict recorded for the current question (unless the
\* learner has left the quiz meanwhile).
C19_GradingNeverBlocks ==
    isSubmitting ~> (view # "QUIZ" \/ (~isSubmitting /\ VerdictRecorded))

\* ------------------------------------------- SpecLLM: schema mismatch
\* the response parsed as JSON, but the value has not the expected shape:
\* no object with a list under questions for the question calls, no object
\* at all for the syllabus and import calls
SchemaMismatch ==
    /\ Settled
    /\ orch.ex.kind = "ok"
    /\ LET p == JsonParse(StripFences(orch.ex.text))
       IN  /\ ~p.threw
           /\ \/ p.doc.kind # "object"
              \/ orch.fn \in QuestionListCalls /\ p.doc.questions.t # "list"

\* C20: a response that parses as JSON but has not the expected shape makes
\* the question-generation calls return an empty list and the syllabus and
\* import calls return null, never a value of another shape.
C20_SchemaMismatchYieldsEmpty ==
    SchemaMismatch =>
        /\ orch.result.out = "returned"
        /\ orch.fn \in QuestionListCalls => orch.result.list = JList(<<>>)
        /\ orch.fn \in NullableCalls => orch.result.isNull

\* ------------------------------------------- SpecRequest: the PDF policy
\* the parts that file i contributed, in the order of the request
PartsOfFile(i) == SelectSeq(request.content, LAMBDA part : part.src = i)

ImagesOfFile(i) == SelectSeq(PartsOfFile(i), LAMBDA part : part.type = "image_url")

\* image of page 1, label of page 1, image of page 2, label of page 2, ...
ImagesEachWithLabel(parts) ==
    /\ Len(parts) % 2 = 0
    /\ \A k \in 1..Len(parts) :
          IF k % 2 = 1
          THEN parts[k].type = "image_url" /\ parts[k].page = (k + 1) \div 2
          ELSE /\ parts[k].type = "text"
               /\ parts[k].text = <<"PDF Page">>
               /\ parts[k].page = k \div 2

ExamplesInRequest ==
    LET ex == SelectSeq(request.content, LAMBDA part : part.text[1] = "Example")
    IN  [i \in 1..Len(ex) |-> ex[i].text[2]]

\* the first k questions of the store that match the topic, by identifier
RECURSIVE FirstMatches(_, _)
FirstMatches(store, k) ==
    IF store = <<>> \/ k = 0 THEN <<>>
    ELSE IF TagOrTextMatch(Head(store), gen.topic)
    THEN <<Head(store).id>> \o FirstMatches(Tail(store), k - 1)
    ELSE FirstMatches(Tail(store), k)

\* C22: the examples that handleGenerateQuiz passes to the generation call
\* are the first min(5, n) of the n questions the retriever returned, in
\* retrieval order, and never more than 5.
C22_BoundedContext ==
    request.fn = "generateQuizFromKnowledgeBase" =>
        /\ Len(ExamplesInRequest) <= 5
        /\ ExamplesInRequest =
              [i \in 1..(IF Len(gen.relevantExamples) < 5
                         THEN Len(gen.relevantExamples) ELSE 5) |->
                  gen.relevantExamples[i].id]
        /\ ~gen.readFailed => ExamplesInRequest = FirstMatches(dbQuestions, 5)

\* seven stored questions match the topic and five of them are sent
C22_Witness ==
    /\ request.fn = "generateQuizFromKnowledgeBase"
    /\ Len(gen.relevantExamples) = 7
    /\ ExamplesInRequest = <<"1001", "1002", "1003", "1004", "1005">>

\* ------------------------------------------- SpecContext: assembly order
\* the place of a section in the order (a) uploaded material, (b) example
\* questions, (c) syllabus content, (d) instructions with topic, difficulty
\* and count
SectionRank(part) ==
    CASE part.src > 0 -> 1
      [] part.text[1] = "Example" -> 2
      [] part.text[1] = "Course" -> 3
      [] OTHER -> 4

\* C23: the generation request holds its sections in the order uploaded
\* material, example questions, syllabus content, instructions; no later
\* section stands before an earlier one.
C23_ContextOrder ==
    request.fn = "generateQuizFromKnowledgeBase" =>
        \A k, l \in 1..Len(request.content) :
            k < l => SectionRank(request.content[k]) <= SectionRank(request.content[l])

\* ------------------------------------------- SpecContext: failing reads
\* C24: when findRelevantQuestions or findRelevantSyllabuses rejects, the
\* generation flow reports a failure and does not go on: no request is
\* built, no session is started and the handler ends with an alert.
C24_ReadFailureReported ==
    gen.readFailed =>
        /\ request.fn # "generateQuizFromKnowledgeBase"
        /\ view # "QUIZ"
        /\ gen.pc = "done" => alert # "none"

\* ------------------------------------------- SpecApp: starting a session
\* C25: the quiz view is shown only with a session whose question list is
\* not empty: a question exists at the current index and the question
\* count, by which the score is divided, is not zero.
C25_SessionHasQuestions ==
    view = "QUIZ" =>
        /\ Len(currentSession) = 1
        /\ currentSession[1].questions.t = "list"
        /\ currentIdx + 1 \in 1..Len(currentSession[1].questions.items)

\* ------------------------------------------- SpecQuiz: order of the flow
\* a step to the next question, or the step that finishes the session, is
\* taken with the verdict of the current question recorded and displayed
NextOnlyAfterVerdict ==
    (currentIdx' = currentIdx + 1 \/ (view = "QUIZ" /\ view' = "RESULTS"))
        => VerdictRecorded

\* every question of the finished session has an entry with a numeric score
FinishedWithScores ==
    view = "RESULTS" =>
        \A i \in 1..Len(currentSession[1].questions.items) :
            LET entry == currentSession[1].answers[currentSession[1].questions.items[i]]
            IN  /\ Len(entry) = 1
                /\ entry[1].score.t = "number"

\* C26: the learner gets from a question to the next one, or to the end
\* of the session, only after a verdict for that question was recorded
\* since its answer last changed; so in a session finished through the
\* last question every question has an entry with a numeric score.
C26_GradedBeforeNext ==
    [][NextOnlyAfterVerdict]_vars /\ [](FinishedWithScores)

\* --------------------------------------- SpecContext: the created session
\* C27: in every session created by handleGenerateQuiz the identifiers of
\* the questions are pairwise distinct, so each entry of the answer mapping
\* belongs to one question only.
C27_SessionIdsDistinct ==
    (gen.pc = "done" /\ Len(currentSession) = 1 /\ currentSession[1].questions.t = "list") =>
        \A i, j \in 1..Len(currentSession[1].questions.items) :
            currentSession[1].questions.items[i] = currentSession[1].questions.items[j]
                => i = j

\* ------------------------------------------ SpecApp: memory and the store
\* entities of the two lists with one identifier have equal field values
SameValuesById(memory, stored) ==
    \A i \in 1..Len(memory), j \in 1..Len(stored) :
        memory[i].id = stored[j].id => memory[i] = stored[j]

\* handleImportKnowledgeBase has just shown its success alert
ImportJustCompleted ==
    /\ imp = ImpDone
    /\ alert = "importOk"
    /\ Len(lastMerges) = 1
    /\ lastMerges[1].path = "handleImportKnowledgeBase"

\* C29: after a backup-file import has completed successfully, an
\* identifier present in memory and in the store has equal field values in
\* both, also when the file held an entity whose identifier existed before
\* with other values.
C29_ImportKeepsMemoryAndStoreEqual ==
    ImportJustCompleted =>
        /\ SameValuesById(questionBank, GetAll(dbQuestions))
        /\ SameValuesById(syllabuses, GetAll(dbSyllabuses))

\* ------------------------------------------------ SpecQuiz: grading race
\* the entry carries a field of a verdict
CarriesVerdict(entry) ==
    \/ entry.isCorrect # Absent
    \/ entry.score # Absent
    \/ entry.aiFeedback # Absent

\* a step that puts a verdict-carrying entry under id: a grading request
\* for id is in flight and the entry holds the value that request sent
VerdictOnSentValue(id) ==
    (/\ answers'[id] # answers[id]
     /\ Len(answers'[id]) = 1
     /\ CarriesVerdict(answers'[id][1]))
        => /\ isSubmitting
           /\ Len(grading) = 1
           /\ grading[1].questionId = id
           /\ answers'[id][1].answer = grading[1].answer

\* C30: under every interleaving of answer edits with an in-flight grading
\* request for the same question, an entry that gets score, correctness
\* and feedback holds the answer value that was sent to the grader for
\* that verdict.
C30_VerdictOnGradedValue ==
    [][\A id \in QuizQuestionIds : VerdictOnSentValue(id)]_vars

\* a request is in flight and the learner has since changed the answer of
\* the question being graded
C30_Witness ==
    /\ isSubmitting
    /\ Len(grading) = 1
    /\ Len(answers[grading[1].questionId]) = 1
    /\ answers[grading[1].questionId][1].answer # grading[1].answer

\* ---------------------------------------------- SpecAdmin: lasting delete
\* the identifiers a merge of loadData added to a collection
BroughtBack(merge) == Ids(merge.after) \ Ids(merge.before)

DeletedOf(coll) ==
    IF coll = "questions" THEN deleted.questions ELSE deleted.syllabuses

\* C28: deletion is lasting: after a Question or Syllabus was deleted in
\* the admin view, no later reload of the knowledge base from the store
\* (loadData on the next start) brings an entity with that identifier back
\* into the in-memory collection, unless it was imported again.
C28_DeletionIsLasting ==
    \A k \in 1..Len(lastMerges) :
        lastMerges[k].path = "loadData" =>
            BroughtBack(lastMerges[k]) \cap DeletedOf(lastMerges[k].coll) = {}

============================================================================
